---- MODULE Spec2Model ----
(***************************************************************************)
(* SoundSphere: a model of the audio processing graph controller.          *)
(*                                                                         *)
(* The parts of the repository that are modelled, each with its own        *)
(* specifications over its own variables:                                  *)
(*   SpecGain     the loudness curve mapVolumeToGain of the Firefox 1.1    *)
(*                build                                                    *)
(*   SpecTap      the page-context WebAudio tap (patched                   *)
(*                AudioNode.connect)                                       *)
(*   SpecPage     the Firefox 1.2 content script on a page of any site but *)
(*                open.spotify.com: AudioBus, MediaHook,                   *)
(*                SoundSpherePageController, the message handlers          *)
(*   SpecSpotify  the same content script on open.spotify.com: DRM_GUARD,  *)
(*                SPOTIFY_TAP and the controller's Spotify paths           *)
(*   SpecEq       the content script and the tap it feeds, with gains      *)
(*                arrays of every shape                                    *)
(*   SpecGuard    the content script on a page of either kind whose media  *)
(*                elements may emit 'encrypted'                            *)
(*   SpecPopup    the popup script of the Chrome, Chrome 1.1 and Firefox   *)
(*                1.2 builds                                               *)
(*   SpecBind     the source-binding routine of each build                 *)
(*   SpecTabs     the 1.2 content scripts of two tabs sharing storage.sync *)
(*   SpecEngine   the tab-capture engine page (engine.js)                  *)
(*   SpecClient   the popup's client of the engine tab (Chrome 1.1)        *)
(*                                                                         *)
(* The environment of the content script.  storage.sync holds what this    *)
(* page's handlers and the Options page have written; the page has the     *)
(* media elements of Els, which it may insert, remove and insert again;    *)
(* the page of SpecPage has no script that connects a node to an           *)
(* AudioContext's destination, the page of SpecEq has one;                 *)
(* on open.spotify.com the popup sends volume and mute messages only.      *)
(*                                                                         *)
(* Numbers.  Percentages and decibel values are integers.  A gain written  *)
(* to an audio node of the 1.2 build is kept in hundredths (a value of 150 *)
(* is the linear gain 1.5), because the code computes it as percent / 100. *)
(* mapVolumeToGain is computed over exact rationals <<n, d>>; IEEE         *)
(* rounding is not modelled.                                               *)
(***************************************************************************)
EXTENDS Integers, Sequences, FiniteSets, TLC

VARIABLES
  \* ---- SpecGain: the injected setVolume handler of the 1.1 build
  gainIn,       \* data.volume of the last SoundSphereCmd setVolume message
  gainOut,      \* gainVal written to the chain's gain node
  gainDone,     \* whether a setVolume message has been handled yet
  \* ---- the WebAudio tap (inject/webaudio_tap.js, and SPOTIFY_TAP of the 1.2 build)
  tapKind,      \* "page": the injected tap; "spotify": SPOTIFY_TAP
  tapState,     \* the tap's settings object `state`
  chains,       \* the WeakMap `chains`, by AudioContext
  tapLinks,     \* connections made by the native connect: <<node, target>>
  tapReport,    \* contexts count of the last SS_TAP_APPLIED message posted, -1 before
  \* ---- SpecPage: one page running the 1.2 content script
  isSpotify,    \* IS_SPOTIFY
  hasAC,        \* whether window.AudioContext exists
  bridgeOk,     \* whether wrappedJSObject and exportFunction are available
  ctl,          \* the SoundSpherePageController's fields
  bus,          \* the AudioBus: _wired and what its nodes are set to
  hk,           \* the MediaHook: sources, hookedCount, _pendingRetry
  el,           \* the media elements, by identity
  dom,          \* the elements that are in the document
  drm,          \* DRM_GUARD: state, watched, and its timers
  web,          \* WEB_AUDIO_TAP
  stap,         \* SPOTIFY_TAP: installed, connect replaced, lastError
  ui,           \* the Spotify player's own volume control
  posted,       \* the SS_SETTINGS payload the last step posted to the injected tap
  saved,        \* what the message handlers wrote to storage.sync
  loaded,       \* whether the storage.sync.get callback has run
  now,          \* the latest value Date.now() has returned
  \* ---- SpecPopup: one popup window
  pop,          \* the popup script's variables and the last setVolume message sent
  \* ---- SpecBind: the source-binding routine of each build
  bind,         \* the build, and per media element the taps tried and the tap used
  \* ---- SpecTabs: the content scripts of two tabs and the store they share
  tabs,         \* storage.sync, and per tab its controller's volume
  \* ---- SpecEngine: the tab-capture engine page (engine.js)
  eng,          \* engineController's fields, its pending operations, the graphs made
  \* ---- SpecClient: the popup's client of the engine tab (Chrome 1.1)
  cli           \* tabAudio's fields, the attempts to find or create the engine tab

gainVars == <<gainIn, gainOut, gainDone>>
tapVars == <<tapKind, tapState, chains, tapLinks, tapReport>>
pageVars ==
  <<isSpotify, hasAC, bridgeOk, ctl, bus, hk, el, dom, drm, web, stap, ui, posted, saved,
    loaded, now>>
popVars == <<pop>>
extVars == <<bind, tabs, eng, cli>>

-----------------------------------------------------------------------------
(* Exact rationals <<n, d>>, d > 0, in lowest terms.  <<0, 0>> stands for    *)
(* a value Number() turns into NaN.                                          *)

RECURSIVE Gcd(_, _)
Gcd(a, b) == IF b = 0 THEN a ELSE Gcd(b, a % b)

Abs(x) == IF x < 0 THEN 0 - x ELSE x

Norm(n, d) ==
  LET g == Gcd(Abs(n), Abs(d))
      s == IF d < 0 THEN 0 - 1 ELSE 1
  IN  <<(s * n) \div g, (s * d) \div g>>

R(k) == <<k, 1>>
NaN == <<0, 0>>
IsNaN(a) == a[2] = 0

RAdd(a, b) == Norm(a[1] * b[2] + b[1] * a[2], a[2] * b[2])
RSub(a, b) == Norm(a[1] * b[2] - b[1] * a[2], a[2] * b[2])
RMul(a, b) == Norm(a[1] * b[1], a[2] * b[2])
RDiv(a, b) == Norm(a[1] * b[2], a[2] * b[1])
RLe(a, b) == a[1] * b[2] <= b[1] * a[2]
RLt(a, b) == a[1] * b[2] < b[1] * a[2]
RMax(a, b) == IF RLe(a, b) THEN b ELSE a
RMin(a, b) == IF RLe(a, b) THEN a ELSE b

-----------------------------------------------------------------------------
(* The loudness curve, src/FireFox/1.1/SoundSphere/background.js             *)

MaxPercent == 800
KneePercent == 600
KneeGain == 6
TopSpan == 200
TopRise == 2

\* Number(percent) || 0
NumberOrZero(v) == IF IsNaN(v) THEN R(0) ELSE v

\* the lower segment divides by the wrong span
mapVolumeToGain_Div800(percent) ==
  LET p == RMax(R(0), RMin(R(MaxPercent), NumberOrZero(percent)))
  IN  IF p = R(0) THEN R(0)
      ELSE IF RLe(p, R(KneePercent))
           THEN RMul(RDiv(p, R(MaxPercent)), R(KneeGain))
           ELSE LET extra == RDiv(RSub(p, R(KneePercent)), R(TopSpan))
                IN  RAdd(R(KneeGain), RMul(extra, R(TopRise)))

\* the upper segment forgets the gain reached at the knee
mapVolumeToGain_Drop(percent) ==
  LET p == RMax(R(0), RMin(R(MaxPercent), NumberOrZero(percent)))
  IN  IF p = R(0) THEN R(0)
      ELSE IF RLe(p, R(KneePercent))
           THEN RMul(RDiv(p, R(KneePercent)), R(KneeGain))
           ELSE LET extra == RDiv(RSub(p, R(KneePercent)), R(TopSpan))
                IN  RMul(extra, R(TopRise))

\* the input is not clamped to [0, 800]
mapVolumeToGain_NoClamp(percent) ==
  LET p == NumberOrZero(percent)
  IN  IF p = R(0) THEN R(0)
      ELSE IF RLe(p, R(KneePercent))
           THEN RMul(RDiv(p, R(KneePercent)), R(KneeGain))
           ELSE LET extra == RDiv(RSub(p, R(KneePercent)), R(TopSpan))
                IN  RAdd(R(KneeGain), RMul(extra, R(TopRise)))

\* the upper segment rises twice as fast
mapVolumeToGain_Steep(percent) ==
  LET p == RMax(R(0), RMin(R(MaxPercent), NumberOrZero(percent)))
  IN  IF p = R(0) THEN R(0)
      ELSE IF RLe(p, R(KneePercent))
           THEN RMul(RDiv(p, R(KneePercent)), R(KneeGain))
           ELSE LET extra == RDiv(RSub(p, R(KneePercent)), R(TopSpan))
                IN  RAdd(R(KneeGain), RMul(RMul(extra, R(TopRise)), R(2)))

mapVolumeToGain(percent) ==
  LET p == RMax(R(0), RMin(R(MaxPercent), NumberOrZero(percent)))
  IN  IF p = R(0) THEN R(0)
      ELSE IF RLe(p, R(KneePercent))
           THEN RMul(RDiv(p, R(KneePercent)), R(KneeGain))
           ELSE LET extra == RDiv(RSub(p, R(KneePercent)), R(TopSpan))
                IN  RAdd(R(KneeGain), RMul(extra, R(TopRise)))

\* The inputs of the curve: a grid of PctDen steps per percent that reaches
\* ExtraRange percent below 0 and above 800, and a non-numeric value.
PctDen == 2
ExtraRange == 10

PercentInputs ==
  { Norm(k, PctDen) : k \in (0 - ExtraRange * PctDen) .. ((MaxPercent + ExtraRange) * PctDen) }
    \cup {NaN}

GainInit ==
  /\ gainIn \in PercentInputs
  /\ gainOut = R(0)
  /\ gainDone = FALSE

\* window "message" listener of the injected hook, kind "setVolume"
InjectedSetVolume(volume) ==
  /\ gainIn' = volume
  /\ gainOut' = mapVolumeToGain(NumberOrZero(volume))
  /\ gainDone' = TRUE



-----------------------------------------------------------------------------
(* JavaScript values that reach the 1.2 build and the tap from outside.      *)
(* k = "num": the number v; "str": a string holding the number v; "nan":    *)
(* NaN; "absent": undefined; "text": a string that Number() reads as NaN;   *)
(* "null": null, which Number() reads as 0.                                  *)

Num(v) == [k |-> "num", v |-> v]
NaNV == [k |-> "nan", v |-> 0]
AbsentV == [k |-> "absent", v |-> 0]
\* a string that Number() reads as the number v
Str(v) == [k |-> "str", v |-> v]
\* a string such as "abc"
Text == [k |-> "text", v |-> 0]
NullV == [k |-> "null", v |-> 0]
\* Number.isFinite(Number(x))
IsFiniteNumber(x) == x.k \in {"num", "str", "null"}
TypeofNumber(x) == x.k \in {"num", "nan"}

Max2(a, b) == IF a >= b THEN a ELSE b
Min2(a, b) == IF a <= b THEN a ELSE b

\* clampNumber / clamp: Number(v) not finite -> min
clampNumber(x, min, max) ==
  IF IsFiniteNumber(x) THEN Max2(min, Min2(max, x.v)) ELSE min

EqBands == 10
EqMinDb == 0 - 24
EqMaxDb == 24
Zero10 == [i \in 1 .. EqBands |-> 0]

\* the same without slice(0, 10)
NormEq_NoSlice(items) ==
  [i \in 1 .. Max2(EqBands, Len(items)) |->
     IF i <= Len(items) THEN clampNumber(items[i], EqMinDb, EqMaxDb)
     ELSE clampNumber(Num(0), EqMinDb, EqMaxDb)]

\* a = arr.slice(0, 10); while (a.length < 10) a.push(0); a.map(clamp(., -24, 24))
NormEq(items) ==
  [i \in 1 .. EqBands |->
     IF i <= Len(items) THEN clampNumber(items[i], EqMinDb, EqMaxDb)
     ELSE clampNumber(Num(0), EqMinDb, EqMaxDb)]

ValidMode(m) == IF m = "voice" \/ m = "bass" THEN m ELSE "default"

-----------------------------------------------------------------------------
(* The WebAudio tap: src/unnamed/part_000 (kind "page") and SPOTIFY_TAP of   *)
(* src/FireFox/1.2/SoundSphere/popup.js (kind "spotify").                    *)

TapCtxs == {"c1", "c2"}
TapNodes == {"n1", "n2", "n3"}
\* node.context
CtxOf(n) == IF n = "n3" THEN "c2" ELSE "c1"
\* what a page script passes to connect(): the context's destination, or
\* something else (an AudioParam, another node)
TapTargets == {"destination", "other"}
\* which internal native connect throws in one call of the patched connect
TapFailures == {"none", "output", "input"}

TapStateInit == [volumePercent |-> 100, muted |-> FALSE, mode |-> "default", eq |-> Zero10]

\* a context without an entry in `chains`
NoChain ==
  [built |-> FALSE, builds |-> 0, gain |-> 100, eq |-> Zero10, mode |-> "default",
   connected |-> FALSE, outCalls |-> 0, outWired |-> FALSE, inputs |-> {},
   log |-> <<>>, order |-> <<>>, gainTo |-> 0, eqFrom |-> 0]

\* buildChain(ctx); `order` lists the chain's first native connect calls in
\* the order they were made ("output": output -> destination, "input": the
\* first source -> input); `log` lists the parameters the latest applySettings wrote,
\* in the order of the writes; `builds` counts the chains ever built for the context;
\* `gainTo` counts the mode segments the gain node feeds and `eqFrom` the mode
\* segments whose output feeds eq[0]
buildChain(old) ==
  [built |-> TRUE, builds |-> old.builds + 1, gain |-> 100, eq |-> Zero10,
   mode |-> "default", connected |-> FALSE, outCalls |-> 0, outWired |-> FALSE,
   inputs |-> {}, log |-> <<>>, order |-> <<>>, gainTo |-> 1, eqFrom |-> 1]

\* the rewiring of setMode / applyMode without old.out.disconnect()
rewire_KeepOut(r, name) ==
  [r EXCEPT !.mode = name, !.gainTo = 1, !.eqFrom = @ + 1]

\* the rewiring of setMode / applyMode: old.in.disconnect(), old.out.disconnect(),
\* gain.disconnect(), gain.connect(new.in), new.out.connect(eq[0])
rewire(r, name) ==
  LET r1 == [r EXCEPT !.eqFrom = IF @ > 0 THEN @ - 1 ELSE 0]
      r2 == [r1 EXCEPT !.gainTo = 0]
  IN  [r2 EXCEPT !.mode = name, !.gainTo = @ + 1, !.eqFrom = @ + 1]

\* applyMode(chain, mode): the segment is rebuilt for the wanted mode (the
\* Spotify tap returns early when chain.mode.name is the wanted mode already)
tapApplyMode(kind, st, chain) ==
  LET wanted == IF kind = "spotify" THEN ValidMode(st.mode) ELSE st.mode
      seg == IF wanted = "voice" \/ wanted = "bass" THEN wanted ELSE "default"
  IN  IF kind = "spotify" /\ chain.mode = wanted THEN chain
      ELSE [rewire(chain, seg) EXCEPT !.log = Append(@, "mode")]

\* applySettings(chain): gain, then EQ, then mode
tapApplySettings(kind, st, chain) ==
  LET g == IF st.muted THEN 0 ELSE clampNumber(Num(st.volumePercent), 0, 800)
      e == [i \in 1 .. EqBands |-> clampNumber(Num(st.eq[i]), EqMinDb, EqMaxDb)]
  IN  tapApplyMode(kind, st, [chain EXCEPT !.gain = g, !.eq = e, !.log = <<"gain", "eq">>])

\* getChainFor(ctx) / getChain(ctx)
getChainFor(kind, st, chain) ==
  IF chain.built THEN chain ELSE tapApplySettings(kind, st, buildChain(chain))

\* nativeConnect.call(this, chain.input) returned
wireInput(c, n) ==
  [c EXCEPT !.inputs = c.inputs \cup {n},
            !.order = IF c.inputs = {} THEN Append(@, "input") ELSE @]

\* patchedConnect without the `connected` flag: the output is connected to the
\* destination on every rerouted call
patchedConnect_NoFlag(kind, st, chain, links, n, t, fail) ==
  IF t # "destination"
  THEN [chain |-> chain, links |-> links \cup {<<n, t>>}]
  ELSE
    LET c1 == getChainFor(kind, st, chain)
        c2 == [c1 EXCEPT !.connected = TRUE,
                         !.outCalls = c1.outCalls + 1,
                         !.outWired = (fail # "output"),
                         !.order = IF c1.outCalls = 0 THEN Append(@, "output") ELSE @]
    IN  [chain |-> wireInput(c2, n), links |-> links]

\* patchedConnect with the source routed into the input before the output is
\* connected
patchedConnect_InputFirst(kind, st, chain, links, n, t, fail) ==
  IF t # "destination"
  THEN [chain |-> chain, links |-> links \cup {<<n, t>>}]
  ELSE
    LET c1 == wireInput(getChainFor(kind, st, chain), n)
    IN  [chain |-> IF c1.connected THEN c1
                   ELSE [c1 EXCEPT !.connected = TRUE,
                                   !.outCalls = c1.outCalls + 1,
                                   !.outWired = (fail # "output"),
                                   !.order = Append(@, "output")],
         links |-> links]

\* The patched AudioNode.prototype.connect, called on node n with target t.
\* Result: the context's chain and the native connections made.
patchedConnect(kind, st, chain, links, n, t, fail) ==
  IF t # "destination"
  THEN [chain |-> chain, links |-> links \cup {<<n, t>>}]
  ELSE
    LET c1 == getChainFor(kind, st, chain)
        c2 == IF c1.connected THEN c1
              ELSE [c1 EXCEPT !.connected = TRUE,
                              !.outCalls = c1.outCalls + 1,
                              !.outWired = (fail # "output"),
                              !.order = Append(@, "output")]
    IN  IF fail # "input"
        THEN [chain |-> wireInput(c2, n), links |-> links]
        ELSE IF kind = "page"
             \* the throw reaches the outer catch: the native connect is applied
             THEN [chain |-> c2, links |-> links \cup {<<n, "destination">>}]
             \* the throw is swallowed and dest returned
             ELSE [chain |-> c2, links |-> links]

\* The settings payload: SS_SETTINGS of the page tap, SPOTIFY_TAP.apply(payload)
tapApplyPayload(st, p) ==
  LET vp == IF TypeofNumber(p.volumePercent) THEN p.volumePercent ELSE p.volume
      v == IF vp.k \in {"absent", "null"} THEN Num(st.volumePercent) ELSE vp
  IN  [volumePercent |-> clampNumber(v, 0, 800),
       muted |-> (p.muted = "true"),
       mode |-> ValidMode(p.mode),
       eq |-> IF p.eq.isArray THEN NormEq(p.eq.items) ELSE st.eq]

\* number of contexts in seenContexts / contexts
SeenCount(ch) == Cardinality({c \in TapCtxs : ch[c].built})

TapInit ==
  /\ tapKind \in {"page", "spotify"}
  /\ tapState = TapStateInit
  /\ chains = [c \in TapCtxs |-> NoChain]
  /\ tapLinks = {}
  /\ tapReport = 0 - 1

\* a page script calls node.connect(target)
TapConnect(n, t, fail) ==
  LET r == patchedConnect(tapKind, tapState, chains[CtxOf(n)], tapLinks, n, t, fail)
  IN  /\ chains' = [chains EXCEPT ![CtxOf(n)] = r.chain]
      /\ tapLinks' = r.links
      /\ UNCHANGED <<tapKind, tapState, tapReport>>

\* the tap receives settings
TapSettings(p) ==
  LET st == tapApplyPayload(tapState, p)
  IN  /\ tapState' = st
      /\ chains' = [c \in TapCtxs |->
                      IF chains[c].built THEN tapApplySettings(tapKind, st, chains[c])
                      ELSE chains[c]]
      /\ tapReport' = IF tapKind = "page" THEN SeenCount(chains) ELSE tapReport
      /\ UNCHANGED <<tapKind, tapLinks>>

\* payloads sent to the tap in SpecTap
NoArray == [isArray |-> FALSE, items |-> <<>>]
Arr(items) == [isArray |-> TRUE, items |-> items]

TapPayloads ==
  [volumePercent : {Num(900), AbsentV},
   volume : {Num(300), AbsentV},
   muted : {"true", "false", "absent"},
   mode : {"bass", "absent"},
   eq : {NoArray, Arr(<<Num(30), Num(0 - 7)>>)}]

\* the calls page scripts make: every node connects to its destination; one
\* node also connects to other targets
TapCalls == { c \in TapNodes \X TapTargets : c[2] = "other" => c[1] = "n1" }

-----------------------------------------------------------------------------
(* The Firefox 1.2 content script, src/FireFox/1.2/SoundSphere/popup.js      *)
(* lines 866-2141: DRM_GUARD, WEB_AUDIO_TAP, SPOTIFY_TAP, AudioBus,          *)
(* MediaHook, SoundSpherePageController and the message handlers.            *)
(*                                                                           *)
(* A handler is a function from the page state (the record PageState) to the *)
(* page state; an action applies one handler to the current state.           *)

\* the <audio>/<video> elements the page may create
Els == {"e1"}
\* _makeSource(el): the direct tap worked, the capture tap worked, neither did
TapOutcomes == {"direct", "capture", "none"}

MaxNow == 1
MaxListeners == 2
MaxDrmTicks == 2

NewElement ==
  [volume |-> 100, muted |-> FALSE, cross |-> FALSE, keys |-> FALSE,
   lPlaying |-> 0, lMeta |-> 0, encL |-> FALSE, enc |-> FALSE, srcNodes |-> 0,
   busConns |-> 0]

CtlInit ==
  [volumePercent |-> 100, muted |-> FALSE, mode |-> "default", eqDb |-> Zero10,
   started |-> FALSE, observer |-> FALSE, spotifyExperimental |-> FALSE]
BusInit ==
  [wired |-> FALSE, gain |-> 100, eq |-> Zero10, mode |-> "default", log |-> <<>>,
   gainTo |-> 0, eqFrom |-> 0]
HookInit == [sources |-> {}, hookedCount |-> 0, pendingRetry |-> {}]
DrmInit ==
  [inUse |-> FALSE, encryptedEvent |-> FALSE, mediaKeys |-> FALSE, lastChangedAt |-> 0,
   watched |-> {}, ticks |-> 0, interval |-> FALSE, timeout |-> FALSE]
WebTapInit == [ready |-> FALSE, lastSeenAt |-> 0]
StapInit == [installed |-> FALSE, patched |-> FALSE, lastError |-> ""]
UiInit == [volume |-> 100, muted |-> FALSE]
NoPost == [sent |-> FALSE, volumePercent |-> 0, muted |-> FALSE, mode |-> "default", eq |-> Zero10]
SavedInit ==
  [vol_global |-> 100, muted |-> FALSE, mode |-> "default", eqGains |-> Zero10,
   spotifyExperimental |-> FALSE]

PageState ==
  [isSpotify |-> isSpotify, hasAC |-> hasAC, bridgeOk |-> bridgeOk,
   ctl |-> ctl, bus |-> bus, hk |-> hk, el |-> el, dom |-> dom, drm |-> drm,
   web |-> web, stap |-> stap, tapState |-> tapState, chains |-> chains,
   tapLinks |-> tapLinks, ui |-> ui, posted |-> NoPost, saved |-> saved,
   loaded |-> loaded, now |-> now]

\* ---- DRM_GUARD

\* mark(kind), with Date.now() = t
drmMark_Toggle(s, kind, t) ==
  [s EXCEPT !.drm.encryptedEvent = (kind = "encrypted") \/ @,
            !.drm.mediaKeys = (kind = "mediaKeys") \/ @,
            !.drm.inUse = ~@,
            !.drm.lastChangedAt = t,
            !.now = t]

drmMark(s, kind, t) ==
  [s EXCEPT !.drm.encryptedEvent = (kind = "encrypted") \/ @,
            !.drm.mediaKeys = (kind = "mediaKeys") \/ @,
            !.drm.inUse = TRUE,
            !.drm.lastChangedAt = t,
            !.now = t]

\* inspectElement(el)
drmInspectElement(s, e, t) == IF s.el[e].keys THEN drmMark(s, "mediaKeys", t) ELSE s

\* watchElement(el)
drmWatchElement(s, e, t) ==
  IF e \in s.drm.watched THEN s
  ELSE LET s1 == [s EXCEPT !.drm.watched = @ \cup {e}]
           s2 == drmInspectElement(s1, e, t)
       IN  [s2 EXCEPT !.el[e].encL = TRUE]

RECURSIVE drmWatchAll(_, _, _)
drmWatchAll(s, todo, t) ==
  IF todo = {} THEN s
  ELSE LET e == CHOOSE x \in todo : TRUE
       IN  drmWatchAll(drmWatchElement(s, e, t), todo \ {e}, t)

\* scan()
drmScan(s, t) == drmWatchAll(s, s.dom, t)

\* ---- SPOTIFY_TAP

\* install()
stapInstall(s) ==
  IF s.stap.installed THEN s
  ELSE LET s1 == [s EXCEPT !.stap.installed = TRUE]
       IN  IF ~s.isSpotify THEN s1
           ELSE IF ~s.bridgeOk THEN [s1 EXCEPT !.stap.lastError = "bridge unavailable"]
           ELSE [s1 EXCEPT !.stap.patched = TRUE]

\* engaged()
stapEngaged(s) == \E c \in TapCtxs : s.chains[c].built

\* apply(payload), payload built by _applyAll
stapApply(s, payload) ==
  LET st == tapApplyPayload(s.tapState, payload)
  IN  [s EXCEPT !.tapState = st,
                !.chains = [c \in TapCtxs |->
                              IF s.chains[c].built
                              THEN tapApplySettings("spotify", st, s.chains[c])
                              ELSE s.chains[c]]]

\* ---- AudioBus

\* ensure()
busEnsure(s) ==
  IF s.bus.wired THEN s
  ELSE IF ~s.hasAC THEN s
  ELSE [s EXCEPT !.bus = [BusInit EXCEPT !.wired = TRUE, !.gainTo = 1, !.eqFrom = 1]]

\* setGainLinear(value), value in hundredths
busSetGainLinear(s, value) ==
  IF ~s.bus.wired THEN s
  ELSE [s EXCEPT !.bus.gain = clampNumber(Num(value), 0, 800),
                 !.bus.log = Append(@, "gain")]

\* setEqDb(dbArray)
busSetEqDb(s, dbArray) ==
  IF ~s.bus.wired THEN s
  ELSE [s EXCEPT !.bus.eq =
          [i \in 1 .. EqBands |-> clampNumber(Num(dbArray[i]), EqMinDb, EqMaxDb)],
                 !.bus.log = Append(@, "eq")]

\* setMode(mode) called ahead of the other two setters
busSetMode_First(s, mode) ==
  IF ~s.bus.wired THEN s
  ELSE [s EXCEPT !.bus = [rewire(@, IF mode = "voice" \/ mode = "bass" THEN mode ELSE "default")
                           EXCEPT !.log = <<"mode">> \o @]]

\* setMode(mode): the mode segment is rebuilt for the mode
busSetMode(s, mode) ==
  IF ~s.bus.wired THEN s
  ELSE [s EXCEPT !.bus = [rewire(@, IF mode = "voice" \/ mode = "bass" THEN mode ELSE "default")
                           EXCEPT !.log = Append(@, "mode")]]

\* the writes of one push of the settings to the bus start a new log
busPush(s) == [s EXCEPT !.bus.log = <<>>]

\* ---- MediaHook

\* hook(el) without the sources.has(el) test
hookEl_NoHasTest(s, e, tap, t) ==
  LET s2 == busEnsure(s)
  IN  IF ~s2.bus.wired \/ tap = "none" THEN s2
      ELSE [s2 EXCEPT !.el[e].srcNodes = @ + 1,
                      !.el[e].busConns = @ + 1,
                      !.hk.sources = @ \cup {e},
                      !.hk.hookedCount = @ + 1,
                      !.el[e].volume = 100]

\* hook(el); tap is what _makeSource(el) comes to, t is Date.now()
hookEl(s, e, tap, t) ==
  LET s1 == IF s.isSpotify THEN drmWatchElement(s, e, t) ELSE s
      s2 == busEnsure(s1)
  IN  IF ~s2.bus.wired THEN s2
      ELSE IF e \in s2.hk.sources THEN s2
      ELSE
        LET s3 == IF ~s2.isSpotify THEN [s2 EXCEPT !.el[e].cross = TRUE] ELSE s2
        IN  IF tap = "none"
            THEN IF e \in s3.hk.pendingRetry THEN s3
                 ELSE [s3 EXCEPT !.hk.pendingRetry = @ \cup {e},
                                 !.el[e].lPlaying = @ + 1,
                                 !.el[e].lMeta = @ + 1]
            ELSE [s3 EXCEPT !.el[e].srcNodes = @ + 1,
                            !.el[e].busConns = @ + 1,
                            !.hk.sources = @ \cup {e},
                            !.hk.hookedCount = @ + 1,
                            !.el[e].muted =
                               IF s3.isSpotify /\ s3.ctl.spotifyExperimental THEN TRUE ELSE @,
                            !.el[e].volume = 100]

RECURSIVE hookAll(_, _, _, _)
hookAll(s, todo, taps, t) ==
  IF todo = {} THEN s
  ELSE LET e == CHOOSE x \in todo : TRUE
       IN  hookAll(hookEl(s, e, taps[e], t), todo \ {e}, taps, t)

\* scan(root = document)
hookScan(s, taps, t) == hookAll(s, s.dom, taps, t)

\* the retry closure registered by hook(el), run n times
RECURSIVE retryTimes(_, _, _, _, _)
retryTimes(s, e, n, tap, t) ==
  IF n = 0 THEN s
  ELSE retryTimes(hookEl([s EXCEPT !.hk.pendingRetry = @ \ {e}], e, tap, t), e, n - 1, tap, t)

\* ---- the per-site user-interface fallbacks

\* applySpotifyUiVolumeMute(volume01, muted): the page's own volume control
applySpotifyUiVolumeMute(s, v, muted) ==
  [s EXCEPT !.ui = [volume |-> clampNumber(Num(v), 0, 100), muted |-> muted]]

\* ---- SoundSpherePageController

\* postSettingsToTap(payload)
postSettingsToTap(s, payload) ==
  [s EXCEPT !.posted = [sent |-> TRUE, volumePercent |-> payload.volumePercent.v,
                        muted |-> (payload.muted = "true"), mode |-> payload.mode,
                        eq |-> [i \in 1 .. EqBands |-> payload.eq.items[i].v]]]

\* the fallback loop of _applyAll: every element of the document
RECURSIVE setElements(_, _, _, _)
setElements(s, todo, v, muted) ==
  IF todo = {} THEN s
  ELSE LET e == CHOOSE x \in todo : TRUE
       IN  setElements([s EXCEPT !.el[e].muted = muted, !.el[e].volume = v],
                       todo \ {e}, v, muted)

\* _applyAll() with the mute flag left out of the bus gain
applyAll_IgnoreMute(s) ==
  IF s.isSpotify /\ ~s.ctl.spotifyExperimental
  THEN applySpotifyUiVolumeMute(s, clampNumber(Num(s.ctl.volumePercent), 0, 100), s.ctl.muted)
  ELSE
    LET usingWebAudio == s.bus.wired /\ s.hk.hookedCount > 0
        usingGenericTap == s.web.ready
        usingSpotifyTap == s.isSpotify /\ s.ctl.spotifyExperimental /\ stapEngaged(s)
        payload == [volumePercent |-> Num(clampNumber(Num(s.ctl.volumePercent), 0, 800)),
                    volume |-> AbsentV,
                    muted |-> IF s.ctl.muted THEN "true" ELSE "false",
                    mode |-> s.ctl.mode,
                    eq |-> Arr([i \in 1 .. EqBands |-> Num(s.ctl.eqDb[i])])]
        s1 == IF s.isSpotify /\ s.ctl.spotifyExperimental THEN stapApply(s, payload) ELSE s
    IN  IF s.isSpotify /\ s.ctl.spotifyExperimental /\ usingSpotifyTap THEN s1
        ELSE IF usingWebAudio
        THEN LET gainLinear == clampNumber(Num(s1.ctl.volumePercent), 0, 800)
             IN  busSetMode(busSetEqDb(busSetGainLinear(busPush(s1), gainLinear),
                                       s1.ctl.eqDb), s1.ctl.mode)
        ELSE IF usingGenericTap THEN postSettingsToTap(s1, payload)
        ELSE
          LET v == clampNumber(Num(s1.ctl.volumePercent), 0, 100)
              s2 == setElements(s1, s1.dom, v, s1.ctl.muted)
          IN  IF s2.isSpotify THEN applySpotifyUiVolumeMute(s2, v, s2.ctl.muted) ELSE s2

\* _applyAll()
applyAll(s) ==
  IF s.isSpotify /\ ~s.ctl.spotifyExperimental
  THEN applySpotifyUiVolumeMute(s, clampNumber(Num(s.ctl.volumePercent), 0, 100), s.ctl.muted)
  ELSE
    LET usingWebAudio == s.bus.wired /\ s.hk.hookedCount > 0
        usingGenericTap == s.web.ready
        usingSpotifyTap == s.isSpotify /\ s.ctl.spotifyExperimental /\ stapEngaged(s)
        payload == [volumePercent |-> Num(clampNumber(Num(s.ctl.volumePercent), 0, 800)),
                    volume |-> AbsentV,
                    muted |-> IF s.ctl.muted THEN "true" ELSE "false",
                    mode |-> s.ctl.mode,
                    eq |-> Arr([i \in 1 .. EqBands |-> Num(s.ctl.eqDb[i])])]
        s1 == IF s.isSpotify /\ s.ctl.spotifyExperimental THEN stapApply(s, payload) ELSE s
    IN  IF s.isSpotify /\ s.ctl.spotifyExperimental /\ usingSpotifyTap THEN s1
        ELSE IF usingWebAudio
        THEN LET gainLinear == IF s1.ctl.muted THEN 0
                               ELSE clampNumber(Num(s1.ctl.volumePercent), 0, 800)
             IN  busSetMode(busSetEqDb(busSetGainLinear(busPush(s1), gainLinear),
                                       s1.ctl.eqDb), s1.ctl.mode)
        ELSE IF usingGenericTap THEN postSettingsToTap(s1, payload)
        ELSE
          LET v == clampNumber(Num(s1.ctl.volumePercent), 0, 100)
              s2 == setElements(s1, s1.dom, v, s1.ctl.muted)
          IN  IF s2.isSpotify THEN applySpotifyUiVolumeMute(s2, v, s2.ctl.muted) ELSE s2

\* _installMediaHooks()
installMediaHooks(s, taps, t) ==
  IF s.ctl.observer THEN s
  ELSE [hookScan(s, taps, t) EXCEPT !.ctl.observer = TRUE]

\* start() without the _started test
start_Always(s, taps, t) ==
  LET s1 == [s EXCEPT !.ctl.started = TRUE]
      s2 == IF ~s1.isSpotify THEN installMediaHooks(s1, taps, t)
            ELSE IF s1.ctl.spotifyExperimental THEN stapInstall(s1)
            ELSE s1
  IN  applyAll(s2)

\* start()
start(s, taps, t) ==
  IF s.ctl.started THEN s
  ELSE LET s1 == [s EXCEPT !.ctl.started = TRUE]
           s2 == IF ~s1.isSpotify THEN installMediaHooks(s1, taps, t)
                 ELSE IF s1.ctl.spotifyExperimental THEN stapInstall(s1)
                 ELSE s1
       IN  applyAll(s2)

setVolumePercent(s, pct, taps, t) ==
  applyAll(start([s EXCEPT !.ctl.volumePercent = clampNumber(pct, 0, 800)], taps, t))

setMuted(s, m, taps, t) ==
  applyAll(start([s EXCEPT !.ctl.muted = m], taps, t))

setMode(s, mode, taps, t) ==
  applyAll(start([s EXCEPT !.ctl.mode = ValidMode(mode)], taps, t))

setEqDb(s, arr, taps, t) ==
  applyAll(start([s EXCEPT !.ctl.eqDb = NormEq(IF arr.isArray THEN arr.items ELSE <<>>)],
                 taps, t))

\* getState()
getState(s) ==
  LET usingWebAudio == s.bus.wired /\ s.hk.hookedCount > 0
      usingSpotifyTap == s.isSpotify /\ s.ctl.spotifyExperimental /\ stapEngaged(s)
      usingTap == s.web.ready \/ usingSpotifyTap
      drmInUse == s.isSpotify /\ s.drm.inUse
      blockedEffects == drmInUse
      canBoost == ~blockedEffects /\ (usingWebAudio \/ usingTap)
  IN  [volume |-> s.ctl.volumePercent, muted |-> s.ctl.muted, mode |-> s.ctl.mode,
       eq |-> s.ctl.eqDb, canBoost |-> canBoost,
       backend |-> IF blockedEffects THEN "protected"
                   ELSE IF usingWebAudio THEN "webaudio"
                   ELSE IF usingSpotifyTap THEN "spotifyTap"
                   ELSE IF usingTap THEN "tap" ELSE "element",
       hooked |-> s.hk.hookedCount,
       drm |-> drmInUse,
       lastChangedAt |-> IF s.isSpotify THEN s.drm.lastChangedAt ELSE 0,
       blockedEffects |-> blockedEffects,
       blockReason |-> IF blockedEffects THEN "Protected playback detected" ELSE "null"]

\* ---- the events of one page

\* Number(x) || d
NumberOr(x, d) == IF IsFiniteNumber(x) /\ x.v # 0 THEN Num(x.v) ELSE Num(d)

\* what storage.sync may hold when the content script starts; afterwards it
\* holds what this page's handlers and the Options page have written
InitialStores ==
  {[SavedInit EXCEPT !.vol_global = v, !.spotifyExperimental = x] :
     v \in {0, 100}, x \in BOOLEAN}
\* the values the popup sends
MsgVolumes == {Num(40), Num(700)}
MsgModes == {"bass", "rock"}
MsgGains == {NoArray, Arr(<<Num(30), Num(0 - 7)>>)}

\* the page state becomes s; a step that would register more listeners on one
\* element than MaxListeners is left out
Commit(s) ==
  /\ \A e \in Els : s.el[e].lPlaying <= MaxListeners /\ s.el[e].lMeta <= MaxListeners
  /\ isSpotify' = s.isSpotify /\ hasAC' = s.hasAC /\ bridgeOk' = s.bridgeOk
  /\ ctl' = s.ctl /\ bus' = s.bus /\ hk' = s.hk /\ el' = s.el /\ dom' = s.dom
  /\ drm' = s.drm /\ web' = s.web /\ stap' = s.stap /\ tapState' = s.tapState
  /\ chains' = s.chains /\ tapLinks' = s.tapLinks /\ ui' = s.ui
  /\ posted' = s.posted /\ saved' = s.saved /\ loaded' = s.loaded /\ now' = s.now
  /\ UNCHANGED <<gainVars, tapKind, tapReport, popVars, extVars>>

PageInit ==
  /\ isSpotify \in BOOLEAN /\ hasAC \in BOOLEAN /\ bridgeOk \in BOOLEAN
  /\ (~isSpotify => bridgeOk)
  /\ ctl = CtlInit /\ bus = BusInit /\ hk = HookInit
  /\ el = [e \in Els |-> NewElement] /\ dom = {}
  /\ drm = [DrmInit EXCEPT !.interval = isSpotify, !.timeout = isSpotify]
  /\ web = WebTapInit /\ stap = StapInit
  /\ tapKind = "spotify" /\ tapState = TapStateInit
  /\ chains = [c \in TapCtxs |-> NoChain] /\ tapLinks = {} /\ tapReport = 0 - 1
  /\ ui = UiInit /\ posted = NoPost /\ saved \in InitialStores /\ loaded = FALSE /\ now = 0

\* the callback of storage.sync.get
StorageLoaded(taps, t) ==
  /\ ~loaded
  /\ LET data == saved
         s0 == [PageState EXCEPT !.loaded = TRUE,
                                 !.ctl.spotifyExperimental = data.spotifyExperimental]
         s1 == IF s0.isSpotify /\ s0.ctl.spotifyExperimental THEN stapInstall(s0) ELSE s0
         s2 == setMode(s1, data.mode, taps, t)
         s3 == setEqDb(s2, Arr([i \in 1 .. EqBands |-> Num(data.eqGains[i])]), taps, t)
         s4 == setMuted(s3, data.muted, taps, t)
     IN  Commit(setVolumePercent(s4, NumberOr(Num(data.vol_global), 100), taps, t))

\* the Options page changes spotifyExperimental: storage.onChanged
StorageChanged(enabled, taps, t) ==
  /\ enabled # saved.spotifyExperimental
  /\ LET s0 == [PageState EXCEPT !.saved.spotifyExperimental = enabled,
                                 !.ctl.spotifyExperimental = enabled]
         s1 == IF s0.isSpotify /\ enabled THEN stapInstall(s0) ELSE s0
     IN  Commit(applyAll(start(s1, taps, t)))

\* runtime.onMessage
MsgGetState(taps, t) == Commit(start(PageState, taps, t))

MsgSetVolume(v, taps, t) ==
  LET s1 == setVolumePercent(PageState, v, taps, t)
  IN  Commit([s1 EXCEPT !.saved.vol_global = s1.ctl.volumePercent])

MsgToggleMute(taps, t) ==
  LET s1 == setMuted(PageState, ~ctl.muted, taps, t)
  IN  Commit([s1 EXCEPT !.saved.muted = s1.ctl.muted])

MsgSetMuted(m, taps, t) ==
  LET s1 == setMuted(PageState, m, taps, t)
  IN  Commit([s1 EXCEPT !.saved.muted = s1.ctl.muted])

MsgSetMode(m, taps, t) ==
  LET s1 == setMode(PageState, m, taps, t)
  IN  Commit([s1 EXCEPT !.saved.mode = s1.ctl.mode])

MsgSetEqGains(g, taps, t) ==
  LET s1 == setEqDb(PageState, g, taps, t)
  IN  Commit([s1 EXCEPT !.saved.eqGains = s1.ctl.eqDb])

\* the page inserts element e; the MutationObserver, when installed, hooks it
DomInsert(e, tap, t) ==
  /\ e \notin dom
  /\ LET s1 == [PageState EXCEPT !.dom = @ \cup {e}]
     IN  Commit(IF s1.ctl.observer THEN hookEl(s1, e, tap, t) ELSE s1)

\* the page removes element e; removedNodes are not looked at
DomRemove(e) ==
  /\ e \in dom
  /\ Commit([PageState EXCEPT !.dom = @ \ {e}])

\* 'play' on an element of the document reaches the capture listener
ElPlay(e, tap, t) ==
  /\ e \in dom /\ ctl.observer
  /\ Commit(hookEl(PageState, e, tap, t))

\* 'playing' on element e: every retry registered for it runs once
ElPlaying(e, tap, t) ==
  /\ el[e].lPlaying > 0
  /\ Commit(retryTimes([PageState EXCEPT !.el[e].lPlaying = 0], e, el[e].lPlaying, tap, t))

\* 'loadedmetadata' on element e
ElLoadedMeta(e, tap, t) ==
  /\ el[e].lMeta > 0
  /\ Commit(retryTimes([PageState EXCEPT !.el[e].lMeta = 0], e, el[e].lMeta, tap, t))

\* SS_TAP_READY or SS_TAP_PONG from the injected tap
TapReady(t) ==
  /\ ~isSpotify
  /\ Commit([PageState EXCEPT !.web = [ready |-> TRUE, lastSeenAt |-> t], !.now = t])

\* DRM_GUARD's setInterval callback
DrmInterval(t) ==
  /\ drm.interval
  /\ LET s1 == drmScan(PageState, t)
         s2 == [s1 EXCEPT !.drm.ticks = @ + 1]
     IN  Commit(IF s2.drm.inUse \/ s2.drm.ticks >= MaxDrmTicks
                THEN [s2 EXCEPT !.drm.interval = FALSE] ELSE s2)

\* DRM_GUARD's setTimeout(scan, 600)
DrmTimeout(t) ==
  /\ drm.timeout
  /\ Commit(drmScan([PageState EXCEPT !.drm.timeout = FALSE], t))

\* the page script sets media keys on element e
SetMediaKeys(e) ==
  /\ isSpotify /\ ~el[e].keys
  /\ Commit([PageState EXCEPT !.el[e].keys = TRUE])

\* 'encrypted' on element e, which has encrypted media from then on
\* (el.enc): the document capture listener, registered on open.spotify.com
\* only, then the element's own once-listener
ElEncrypted(e, t) ==
  /\ e \in dom \/ el[e].encL
  /\ LET s0 == [PageState EXCEPT !.el[e].enc = TRUE]
         s1 == IF s0.isSpotify /\ e \in dom THEN drmMark(s0, "encrypted", t) ELSE s0
         s2 == IF s1.el[e].encL
               THEN [drmMark(s1, "encrypted", t) EXCEPT !.el[e].encL = FALSE] ELSE s1
     IN  Commit(s2)

\* a script of the Spotify page calls node.connect(ctx.destination) after
\* SPOTIFY_TAP.install() has replaced connect
SpotifyConnect(n, fail) ==
  /\ stap.patched
  /\ LET r == patchedConnect("spotify", tapState, chains[CtxOf(n)], tapLinks, n,
                             "destination", fail)
     IN  Commit([PageState EXCEPT !.chains[CtxOf(n)] = r.chain, !.tapLinks = r.links])

-----------------------------------------------------------------------------
(* Claims about the loudness curve, checked under SpecGain                   *)

\* C7: mapVolumeToGain returns exactly 0 at 0, 1 at 100, 6 at 600 and 8 at
\* 800, and it has no jump at 600: on the grid points next to 600, below and
\* above, the result is within |percent - 600| / 50 of 6.
NearKnee(p) == RLe(RSub(R(KneePercent), R(1)), p) /\ RLe(p, RAdd(R(KneePercent), R(1)))
RDist(a, b) == IF RLe(a, b) THEN RSub(b, a) ELSE RSub(a, b)
C7_FixedPoints ==
  gainDone /\ ~IsNaN(gainIn) =>
    /\ (gainIn = R(0) => gainOut = R(0))
    /\ (gainIn = R(100) => gainOut = R(1))
    /\ (gainIn = R(600) => gainOut = R(6))
    /\ (gainIn = R(800) => gainOut = R(8))
    /\ (NearKnee(gainIn) =>
          RLe(RDist(gainOut, R(6)), RDiv(RDist(gainIn, R(600)), R(50))))
C7_Witness ==
  gainDone /\ ~IsNaN(gainIn) /\ RLt(R(600), gainIn) /\ NearKnee(gainIn) /\ RLt(R(6), gainOut)

\* C8: mapVolumeToGain is monotonically non-decreasing over [0,800]: when a
\* call with percent p is followed by a call with q >= p, both in the range,
\* the second result is not below the first; and the result for 0 is exactly 0.
InRange(p) == ~IsNaN(p) /\ RLe(R(0), p) /\ RLe(p, R(800))
C8_MonotoneStep ==
  /\ (gainDone /\ gainDone' /\ InRange(gainIn) /\ InRange(gainIn') /\ RLe(gainIn, gainIn')
        => RLe(gainOut, gainOut'))
  /\ (gainDone' /\ gainIn' = R(0) => gainOut' = R(0))
C8_Monotone == [][C8_MonotoneStep]_gainVars
C8_Witness == gainDone /\ gainIn = R(700) /\ RLt(R(6), gainOut) /\ RLt(gainOut, R(8))

\* C9: for every percent below 0 the result is the result for 0, and for
\* every percent above 800 it is the result for 800.
C9_Clamps ==
  gainDone /\ ~IsNaN(gainIn) =>
    /\ (RLt(gainIn, R(0)) => gainOut = mapVolumeToGain(R(0)))
    /\ (RLt(R(800), gainIn) => gainOut = mapVolumeToGain(R(800)))
C9_Witness == gainDone /\ ~IsNaN(gainIn) /\ RLt(R(800), gainIn) /\ gainOut = R(8)

\* C10 (as stated): a one-percent step above 600 raises the gain by more than
\* a one-percent step below 600.
StepFrom(p) == RSub(mapVolumeToGain(RAdd(p, R(1))), mapVolumeToGain(p))
LowerSteps == { Norm(k, PctDen) : k \in 1 .. ((KneePercent - 1) * PctDen) }
AboveKnee(p) == ~IsNaN(p) /\ RLe(R(600), p) /\ RLe(RAdd(p, R(1)), R(800))
C10_Steeper ==
  gainDone /\ AboveKnee(gainIn) =>
    \A q \in LowerSteps : RLt(StepFrom(q), RSub(mapVolumeToGain(RAdd(gainIn, R(1))), gainOut))
\* C10 (amended): a one-percent step raises the gain by the same amount,
\* 1/100, above 600 and below it.
C10_SameSlope ==
  gainDone /\ AboveKnee(gainIn) =>
    /\ RSub(mapVolumeToGain(RAdd(gainIn, R(1))), gainOut) = <<1, 100>>
    /\ \A q \in LowerSteps : StepFrom(q) = <<1, 100>>
C10_Witness == gainDone /\ gainIn = R(650) /\ gainOut = <<13, 2>>

-----------------------------------------------------------------------------
(* The popup: src/Chrome/SoundSphere/popup.js (build "chrome10"),            *)
(* src/Chrome/1.1/SoundSphere/popup.js (build "chrome11") and lines 1-865 of *)
(* src/FireFox/1.2/SoundSphere/popup.js (build "firefox12").                 *)
(*                                                                           *)
(* A handler is a function from the popup's variables (the record pop) to    *)
(* the popup's variables.  loadPrefsAndTab is an async function: each of its *)
(* awaits is a position `pc` at which the handlers of user input may run.    *)
(* Numbers read from storage and from a reply are finite: the popup tests    *)
(* them with typeof x === "number" and both channels carry JSON values.      *)

PopBuilds == {"chrome10", "chrome11", "firefox12"}

NoMsg == [any |-> FALSE, flip |-> FALSE, value |-> 0, overdrive |-> TRUE]

\* the script's top-level declarations
PopNew(build, host) ==
  [build |-> build, spotifyHost |-> host, pc |-> "prefs", tab |-> FALSE,
   overdrive |-> TRUE, saving |-> FALSE, slider |-> 100, lastSentVolume |-> NullV,
   pageCanBoost |-> FALSE, effectsEnabled |-> TRUE, notice |-> "", msg |-> NoMsg]

\* maxVolume() / maxAllowedVolume()
maxVolume(p) ==
  IF p.build = "firefox12" /\ ~p.pageCanBoost THEN 100
  ELSE IF p.overdrive THEN 800 ELSE 600

\* Math.max(0, Math.min(percentRaw, limit)) without the limit
popClamp_NoLimit(p, percentRaw) == Max2(0, percentRaw)

\* Math.max(0, Math.min(percentRaw, limit))
popClamp(p, percentRaw) == Max2(0, Min2(percentRaw, maxVolume(p)))

\* sendToTab({ action: "setVolume", volume: value }): nothing is sent without
\* a current tab; msg.flip changes with every message sent
sendToTab(p, value) ==
  IF ~p.tab THEN p
  ELSE [p EXCEPT !.msg = [any |-> TRUE, flip |-> ~p.msg.flip, value |-> value,
                          overdrive |-> p.overdrive]]

\* applyVolume(percentRaw) without the lastSentVolume test
applyVolume_NoSkip(p, percentRaw) ==
  LET value == popClamp(p, percentRaw)
  IN  IF p.build = "chrome10" THEN sendToTab(p, value)
      ELSE sendToTab([p EXCEPT !.lastSentVolume = Num(value)], value)

\* applyVolume(percentRaw); the first build has no lastSentVolume
applyVolume(p, percentRaw) ==
  LET value == popClamp(p, percentRaw)
  IN  IF p.build = "chrome10" THEN sendToTab(p, value)
      ELSE IF p.lastSentVolume = Num(value) THEN p
      ELSE sendToTab([p EXCEPT !.lastSentVolume = Num(value)], value)

\* setSlider(percentRaw)
setSlider(p, percentRaw) ==
  LET value == popClamp(p, percentRaw)
  IN  applyVolume([p EXCEPT !.slider = value], value)

\* setEffectsEnabledForPage(enabled, reason), with setSiteNotice
setEffectsEnabledForPage(p, enabled, reason) ==
  [p EXCEPT !.effectsEnabled = enabled,
            !.pageCanBoost = IF enabled THEN @ ELSE FALSE,
            !.notice = IF enabled THEN "" ELSE reason]

\* the reply to getState that the popup did not get, or one without a volume
NoReply ==
  [ok |-> FALSE, volume |-> 0, canBoost |-> FALSE, blockedEffects |-> FALSE,
   drm |-> FALSE, blockReason |-> "null"]
Reply(st) ==
  [ok |-> TRUE, volume |-> st.volume, canBoost |-> st.canBoost,
   blockedEffects |-> st.blockedEffects, drm |-> st.drm, blockReason |-> st.blockReason]

\* loadPrefsAndTab after `await sendTabMessage(getState)`; percent is the
\* stored volume the fallback reads
onState(p, st, percent) ==
  IF st.ok
  THEN
    LET p1 == IF p.build # "firefox12" THEN p
              ELSE LET q == [p EXCEPT !.pageCanBoost = st.canBoost]
                   IN  IF st.blockedEffects
                       THEN setEffectsEnabledForPage(q, FALSE,
                              IF st.blockReason = "null"
                              THEN "Advanced processing is unavailable on this page."
                              ELSE st.blockReason)
                       ELSE IF q.spotifyHost /\ ~st.canBoost
                       THEN setEffectsEnabledForPage(q, FALSE,
                              IF st.drm THEN "Spotify is using protected playback"
                              ELSE "Advanced processing is unavailable for Spotify")
                       ELSE setEffectsEnabledForPage(q, TRUE, "")
    IN  [setSlider(p1, popClamp(p1, st.volume)) EXCEPT !.pc = "done"]
  ELSE
    LET p1 == [p EXCEPT !.lastSentVolume = NullV]
        p2 == IF p.build # "firefox12" THEN p1
              ELSE LET q == [p1 EXCEPT !.pageCanBoost = FALSE]
                   IN  IF q.spotifyHost
                       THEN setEffectsEnabledForPage(q, FALSE,
                              "Spotify advanced processing status is unavailable right now")
                       ELSE setEffectsEnabledForPage(q, TRUE, "")
    IN  [setSlider(p2, percent) EXCEPT !.pc = "done"]

\* ---- the events of one popup

\* what the user, storage and the page may supply as a volume
PopVolumes == {0 - 5, 50, 100, 650, 900}
PopReplies ==
  {NoReply} \cup
  {[ok |-> TRUE, volume |-> v, canBoost |-> c, blockedEffects |-> b, drm |-> b,
    blockReason |-> IF b THEN "Protected playback detected" ELSE "null"] :
     v \in {50, 650}, c \in BOOLEAN, b \in BOOLEAN}

PopIdle == pop = PopNew("chrome11", FALSE)
PopInit ==
  \E b \in PopBuilds, h \in BOOLEAN :
    /\ (h => b = "firefox12")
    /\ pop = PopNew(b, h)

PopStep(p) == pop' = p /\ UNCHANGED <<gainVars, tapVars, pageVars, extVars>>

\* the first storageGet of loadPrefsAndTab / loadPrefsAndActiveTab returns
PopPrefsLoaded(od) ==
  /\ pop.pc = "prefs"
  /\ PopStep([pop EXCEPT !.overdrive = od, !.pc = "tabs"])

\* queryTabs returns, with or without an active tab
PopTabsLoaded(hasTab) ==
  /\ pop.pc = "tabs"
  /\ PopStep(IF hasTab THEN [pop EXCEPT !.tab = TRUE, !.pc = "state"]
             ELSE [pop EXCEPT !.pc = "done"])

\* the 1.1 and 1.2 builds: sendTabMessage(getState) returns or fails
PopStateReply(st, percent) ==
  /\ pop.pc = "state" /\ pop.build # "chrome10"
  /\ PopStep(onState(pop, st, percent))

\* the first build: the second storageGet returns
PopStoredVolume(percent) ==
  /\ pop.pc = "state" /\ pop.build = "chrome10"
  /\ PopStep([setSlider(pop, percent) EXCEPT !.pc = "done"])

\* 'input' on the slider, whose value the user has moved to v
PopSliderInput(v) ==
  /\ pop' = applyVolume([pop EXCEPT !.slider = popClamp(pop, v)], popClamp(pop, v))
  /\ UNCHANGED <<gainVars, tapVars, pageVars, extVars>>

\* click on Mute / Unmute
PopMuteClick ==
  /\ pop' = setSlider(pop, IF pop.slider = 0 THEN 100 ELSE 0)
  /\ UNCHANGED <<gainVars, tapVars, pageVars, extVars>>

\* click on Reset
PopResetClick ==
  /\ pop' = setSlider(pop, 100)
  /\ UNCHANGED <<gainVars, tapVars, pageVars, extVars>>

\* click on Save in the settings panel, up to the storageSet
PopSaveClick(od) ==
  /\ ~pop.saving
  /\ PopStep([pop EXCEPT !.overdrive = od, !.saving = TRUE])

\* the storageSet of Save returns
PopSaveDone ==
  /\ pop.saving
  /\ PopStep(setSlider([pop EXCEPT !.saving = FALSE], pop.slider))

\* click on a row of the audible tabs list.  The first build restarts
\* loadPrefsAndActiveTab, the 1.1 build ends in setSlider(percent); the 1.2
\* build's listener stops at its first call, of a function that is not defined
PopTabClick(percent) ==
  /\ pop.build # "firefox12"
  /\ PopStep(IF pop.build = "chrome10" THEN [pop EXCEPT !.tab = TRUE, !.pc = "prefs"]
             ELSE setSlider([pop EXCEPT !.tab = TRUE], percent))

-----------------------------------------------------------------------------------------------------------------------------------------------------
(* The source-binding routines: MediaHook._makeSource of the 1.2 build,      *)
(* makeSourceForElement of the 1.1 background script and of the content       *)
(* script, hookElement of the 1.0 content script.                             *)
(*****************************************************************************)

BindBuilds == {"firefox12", "firefox11", "content", "chrome10"}
BindEls == {"a", "b", "c"}
MaxChains == 2
\* an element no routine has run for: `mapped` says the element is in the
\* build's map of bound elements (mediaMap, audioElements, sources), `live`
\* counts the chains fed by the element that are connected to a destination,
\* `taken` says createMediaElementSource has returned a node for it (a second
\* call for the same element throws), `ctxs` counts the AudioContexts created
\* for the element and not closed, `cross` says the routine has set the
\* element's crossOrigin
Unbound ==
  [tries |-> <<>>, used |-> "none", mapped |-> FALSE, live |-> 0, taken |-> FALSE,
   ctxs |-> 0, cross |-> FALSE]

\* The routine of one build run for an element: `tries` lists the taps it
\* attempted, in order, and `used` is the tap whose source it returned.
\* directOk: createMediaElementSource(el) returns a node; captureOk:
\* captureStream / mozCaptureStream exists and returns a stream; streamOk:
\* createMediaStreamSource(stream) returns a node.
makeSource(build, directOk, captureOk, streamOk) ==
  CASE build \in {"firefox12", "firefox11"} ->
         IF directOk THEN [tries |-> <<"direct">>, used |-> "direct"]
         ELSE [tries |-> <<"direct", "capture">>,
               used |-> IF captureOk /\ streamOk THEN "capture" ELSE "none"]
    [] build = "content" ->
         IF captureOk /\ streamOk THEN [tries |-> <<"capture">>, used |-> "capture"]
         ELSE [tries |-> <<"capture", "direct">>,
               used |-> IF directOk THEN "direct" ELSE "none"]
    [] OTHER ->
         [tries |-> <<"direct">>, used |-> IF directOk THEN "direct" ELSE "none"]

BindIdle == bind = [build |-> "firefox12", of |-> [e \in BindEls |-> Unbound]]
BindInit == bind \in [build : BindBuilds, of : {[e \in BindEls |-> Unbound]}]

\* the 'ended' / 'emptied' listener of a bound element: the content script
\* forgets the element, the 1.1 background script also disconnects the
\* chain's nodes, the 1.0 content script also closes the element's context
unhook(build, b) ==
  IF build = "content" THEN [b EXCEPT !.mapped = FALSE]
  ELSE IF build = "chrome10" THEN [b EXCEPT !.mapped = FALSE, !.live = 0, !.ctxs = @ - 1]
  ELSE [b EXCEPT !.mapped = FALSE, !.live = 0]

\* hookElementYouTube / attachMedia / hookElement / hook for an element that
\* is not in the map: the source is made and wired through a new chain to the
\* destination; the 1.0 content script creates an AudioContext per call before
\* it asks for the source, the 1.2 build sets crossOrigin before it does
hookElement(build, b, directOk, captureOk, streamOk) ==
  LET r == makeSource(build, directOk /\ ~b.taken, captureOk, streamOk)
  IN  [tries |-> r.tries, used |-> r.used,
       mapped |-> r.used # "none",
       live |-> IF r.used # "none" THEN b.live + 1 ELSE b.live,
       taken |-> b.taken \/ r.used = "direct",
       ctxs |-> IF build = "chrome10" THEN b.ctxs + 1 ELSE b.ctxs,
       cross |-> b.cross \/ build = "firefox12"]

\* the scan or the observer passes an element that is not in the map
BindElement(e, directOk, captureOk, streamOk) ==
  /\ ~bind.of[e].mapped /\ bind.of[e].live < MaxChains /\ bind.of[e].ctxs < MaxChains
  /\ bind' = [bind EXCEPT !.of[e] = hookElement(bind.build, @, directOk, captureOk, streamOk)]
  /\ UNCHANGED <<gainVars, tapVars, pageVars, popVars, tabs, eng, cli>>

\* a bound element emits 'ended' or 'emptied'; only the content script
\* listens to 'emptied', the 1.2 build listens to neither
BindEnded(e, ev) ==
  /\ bind.of[e].mapped /\ bind.build # "firefox12"
  /\ ev = "emptied" => bind.build = "content"
  /\ bind' = [bind EXCEPT !.of[e] = unhook(bind.build, @)]
  /\ UNCHANGED <<gainVars, tapVars, pageVars, popVars, tabs, eng, cli>>

-----------------------------------------------------------------------------
(* Two tabs: each runs the 1.2 content script with its own controller; the   *)
(* popup is opened on one tab at a time; storage.sync is shared.             *)
(*****************************************************************************)

TabIds == {1, 2}
TabVolumes == {0, 300}
\* a fresh document: the controller's constructor ran, the storage callback
\* has not
NewTab(own) == [loaded |-> FALSE, volumePercent |-> 100, own |-> own]
TabsNew(remember) ==
  [remember |-> remember,
   vol_global |-> Num(100),
   vol_tab |-> [t \in TabIds |-> AbsentV],
   of |-> [t \in TabIds |-> NewTab({})]]
TabsIdle == tabs = TabsNew(FALSE)
TabsInit == tabs \in {TabsNew(r) : r \in BOOLEAN}

\* storage.sync.get callback of the content script of tab t:
\* controller.setVolumePercent(Number(data.vol_global) || 100)
TabContentLoaded(t) ==
  /\ ~tabs.of[t].loaded
  /\ tabs' = [tabs EXCEPT !.of[t].loaded = TRUE,
                          !.of[t].volumePercent =
                             clampNumber(NumberOr(tabs.vol_global, 100), 0, 800)]
  /\ UNCHANGED <<gainVars, tapVars, pageVars, popVars, bind, eng, cli>>

\* the popup, opened on tab t, sends setVolume to tab t (slider 'input');
\* the content script of t applies it and stores it as vol_global.
\* `own` collects the volumes requested for the tab.
TabSetVolume(t, v) ==
  LET pct == clampNumber(Num(v), 0, 800)
  IN  /\ tabs' = [tabs EXCEPT !.of[t].volumePercent = pct,
                              !.of[t].own = @ \cup {v},
                              !.vol_global = Num(pct)]
      /\ UNCHANGED <<gainVars, tapVars, pageVars, popVars, bind, eng, cli>>

\* slider 'change' of the popup opened on tab t, the slider at value v
TabSliderChange(t, v) ==
  /\ v \in tabs.of[t].own
  /\ tabs' = IF tabs.remember THEN [tabs EXCEPT !.vol_tab[t] = Num(v)]
             ELSE [tabs EXCEPT !.vol_global = Num(v)]
  /\ UNCHANGED <<gainVars, tapVars, pageVars, popVars, bind, eng, cli>>

\* tab t loads a new document: a new content script, a new controller
TabNavigate(t) ==
  /\ tabs.of[t].loaded
  /\ tabs' = [tabs EXCEPT !.of[t] = NewTab(@.own)]
  /\ UNCHANGED <<gainVars, tapVars, pageVars, popVars, bind, eng, cli>>

-----------------------------------------------------------------------------
(* The engine page: TabAudioController owns the tab-capture graph.  Each     *)
(* SET_GAIN message that has to capture runs as an operation that waits      *)
(* twice (getMediaStreamId, getUserMedia); other messages and other          *)
(* operations run in between.  A graph is the stream, the AudioContext and   *)
(* the nodes one operation creates; gains are in hundredths.                 *)
(*****************************************************************************)

MaxOps == 2
EngOps == 1 .. MaxOps
EngTabs == {1, 2}
EngVolumes == {Num(50), Num(900)}
EngModes == {"default", "bass"}
EngEqInputs == {NoArray, Arr(<<Num(30), Str(7)>>)}

NoOp == [pos |-> "free", tab |-> 0, gainValue |-> 0]
DoneOp == [pos |-> "done", tab |-> 0, gainValue |-> 0]
NoGraph ==
  [made |-> FALSE, tab |-> 0, stopped |-> FALSE, gain |-> 0, mode |-> "default",
   eq |-> Zero10]
\* a graph whose tracks are stopped and whose context is closed: its nodes
\* process nothing any more
StoppedGraph == [NoGraph EXCEPT !.made = TRUE, !.stopped = TRUE]

\* constructor(); cur = 0 stands for audioCtx, stream and gainNode null (they
\* are assigned and cleared together), else it names the graph they hold
EngNew ==
  [tabId |-> 0, cur |-> 0, currentGain |-> 100, currentMode |-> "default",
   currentEq |-> [i \in 1 .. EqBands |-> Num(0)],
   lastGain |-> 100, nextOp |-> 1,
   ops |-> [n \in EngOps |-> NoOp],
   graphs |-> [n \in EngOps |-> NoGraph]]

\* _applyEqFilters: the value written to each band's gain
engEqBands(currentEq) ==
  [i \in 1 .. EqBands |-> IF TypeofNumber(currentEq[i]) THEN currentEq[i].v ELSE 0]

\* _applyModeFilter: the filter follows currentMode
engModeOf(currentMode) ==
  IF currentMode = "voice" \/ currentMode = "bass" THEN currentMode ELSE "default"

\* dispose()
engDispose(e) ==
  LET g == IF e.cur # 0 THEN [e.graphs EXCEPT ![e.cur] = StoppedGraph] ELSE e.graphs
  IN  [e EXCEPT !.graphs = g, !.cur = 0, !.tabId = 0]

EngStep(e) ==
  /\ eng' = e
  /\ UNCHANGED <<gainVars, tapVars, pageVars, popVars, bind, tabs, cli>>

EngIdle == eng = EngNew
EngInit == eng = EngNew

\* SET_GAIN: setGainPercent up to the first wait of ensureForTab, or to its
\* end when the live graph of the tab is reused
EngSetGain(tabId, percent) ==
  LET gainValue == Max2(0, NumberOr(percent, 0).v)
      e1 == [eng EXCEPT !.currentGain = gainValue, !.lastGain = gainValue]
  IN  IF e1.tabId = tabId /\ e1.cur # 0
      THEN EngStep([e1 EXCEPT !.graphs[e1.cur].gain = gainValue])
      ELSE /\ eng.nextOp <= MaxOps
           /\ EngStep([engDispose(e1) EXCEPT
                         !.tabId = tabId,
                         !.ops[eng.nextOp] =
                            [pos |-> "id", tab |-> tabId, gainValue |-> gainValue],
                         !.nextOp = @ + 1])

\* the getMediaStreamId callback of operation n
EngStreamId(n, ok) ==
  /\ eng.ops[n].pos = "id"
  /\ EngStep(IF ok THEN [eng EXCEPT !.ops[n].pos = "media"]
             ELSE [eng EXCEPT !.ops[n] = DoneOp])

\* getUserMedia settles for operation n: the rest of ensureForTab, then the
\* rest of setGainPercent
EngUserMedia(n, ok) ==
  /\ eng.ops[n].pos = "media"
  /\ EngStep(IF ~ok THEN [eng EXCEPT !.ops[n] = DoneOp]
             ELSE [eng EXCEPT
                     !.cur = n,
                     !.graphs[n] =
                        [made |-> TRUE, tab |-> eng.ops[n].tab, stopped |-> FALSE,
                         gain |-> eng.ops[n].gainValue,
                         mode |-> engModeOf(eng.currentMode),
                         eq |-> engEqBands(eng.currentEq)],
                     !.ops[n] = DoneOp])

\* SET_EQ: setEqGains(gains)
EngSetEq(gains) ==
  LET items == IF gains.isArray THEN gains.items ELSE <<>>
      arr == [i \in 1 .. EqBands |-> IF i <= Len(items) THEN items[i] ELSE Num(0)]
      e1 == [eng EXCEPT !.currentEq = arr]
  IN  EngStep(IF e1.cur = 0 THEN e1
              ELSE [e1 EXCEPT !.graphs[e1.cur].eq = engEqBands(arr)])

\* SET_MODE: setMode(mode)
EngSetMode(mode) ==
  LET e1 == [eng EXCEPT !.currentMode = mode]
  IN  EngStep(IF e1.cur = 0 THEN e1
              ELSE [e1 EXCEPT !.graphs[e1.cur].mode = engModeOf(mode)])

\* DISPOSE
EngDisposeMsg ==
  /\ eng.cur # 0 \/ eng.tabId # 0
  /\ EngStep(engDispose(eng))

-----------------------------------------------------------------------------
(* The popup's TabAudioController (Chrome 1.1): ensureEngineTab finds or     *)
(* creates the pinned engine tab.  An attempt is one run of the async        *)
(* function stored in _ensurePromise; callers are the popup's calls of       *)
(* sendToEngine.                                                             *)
(*****************************************************************************)

MaxAttempts == 3
Attempts == 1 .. MaxAttempts
Callers == {"c1", "c2", "c3"}
EngineTabId == 7

\* constructor(); ensurePromise = 0 stands for _ensurePromise null, waits[c]
\* = 0 for a caller that is not inside ensureEngineTab, sent[c] for a caller
\* whose runtime.sendMessage has not been answered yet
CliNew ==
  [engineReady |-> FALSE, engineTabId |-> 0, ensurePromise |-> 0,
   at |-> [k \in Attempts |-> "free"],
   waits |-> [c \in Callers |-> 0],
   sent |-> [c \in Callers |-> FALSE],
   nextAttempt |-> 1, creates |-> 0]

\* ensureEngineTab() without the _ensurePromise test
ensureEngineTab_NoShare(s, c) ==
  IF s.engineReady /\ s.engineTabId # 0 THEN [s EXCEPT !.sent[c] = TRUE]
  ELSE [s EXCEPT !.ensurePromise = s.nextAttempt,
                 !.at[s.nextAttempt] = "query",
                 !.waits[c] = s.nextAttempt,
                 !.nextAttempt = @ + 1]

\* sendToEngine: ensureEngineTab() called by c, up to its first wait, or to
\* runtime.sendMessage when the engine tab is known
ensureEngineTab(s, c) ==
  IF s.engineReady /\ s.engineTabId # 0 THEN [s EXCEPT !.sent[c] = TRUE]
  ELSE IF s.ensurePromise # 0 THEN [s EXCEPT !.waits[c] = s.ensurePromise]
  ELSE [s EXCEPT !.ensurePromise = s.nextAttempt,
                 !.at[s.nextAttempt] = "query",
                 !.waits[c] = s.nextAttempt,
                 !.nextAttempt = @ + 1]

\* attempt k settles: the callers awaiting its promise go on to
\* runtime.sendMessage
settle(s, k) ==
  [s EXCEPT !.at[k] = "done",
            !.waits = [c \in Callers |-> IF s.waits[c] = k THEN 0 ELSE s.waits[c]],
            !.sent = [c \in Callers |-> s.waits[c] = k \/ s.sent[c]]]

CliIdle == cli = CliNew
CliInit == cli = CliNew

CliStep(s) ==
  /\ cli' = s
  /\ UNCHANGED <<gainVars, tapVars, pageVars, popVars, bind, tabs, eng>>

\* sendToEngine(message) called by c: await this.ensureEngineTab()
CliSend(c) ==
  /\ cli.waits[c] = 0 /\ ~cli.sent[c]
  /\ \/ cli.nextAttempt <= MaxAttempts
     \/ cli.ensurePromise # 0
     \/ cli.engineReady /\ cli.engineTabId # 0
  /\ CliStep(ensureEngineTab(cli, c))

\* the runtime.sendMessage callback of caller c
CliAnswered(c) ==
  /\ cli.sent[c]
  /\ CliStep([cli EXCEPT !.sent[c] = FALSE])

\* the tabs.query callback of attempt k; found: an engine tab exists
CliQueried(k, found) ==
  /\ cli.at[k] = "query"
  /\ CliStep(IF found
             THEN settle([cli EXCEPT !.engineReady = TRUE, !.engineTabId = EngineTabId,
                                     !.ensurePromise = 0], k)
             ELSE [cli EXCEPT !.at[k] = "create", !.creates = @ + 1])

\* the tabs.create callback of attempt k; ok: a tab with a numeric id
CliCreated(k, ok) ==
  /\ cli.at[k] = "create"
  /\ CliStep(settle([cli EXCEPT !.engineTabId = IF ok THEN EngineTabId ELSE @,
                                !.engineReady = TRUE,
                                !.ensurePromise = 0], k))

ExtIdle == BindIdle /\ TabsIdle /\ EngIdle /\ CliIdle

-----------------------------------------------------------------------------
(* Specifications                                                            *)

vars == <<gainVars, tapVars, pageVars, popVars, extVars>>

GainIdle == gainIn = R(0) /\ gainOut = R(0) /\ gainDone = FALSE
TapIdle ==
  /\ tapKind = "page"
  /\ tapState = TapStateInit
  /\ chains = [c \in TapCtxs |-> NoChain]
  /\ tapLinks = {}
  /\ tapReport = 0 - 1

PageIdle ==
  /\ isSpotify = FALSE /\ hasAC = FALSE /\ bridgeOk = FALSE
  /\ ctl = CtlInit /\ bus = BusInit /\ hk = HookInit
  /\ el = [e \in Els |-> NewElement] /\ dom = {}
  /\ drm = DrmInit /\ web = WebTapInit /\ stap = StapInit
  /\ ui = UiInit /\ posted = NoPost /\ saved = SavedInit /\ loaded = FALSE /\ now = 0

\* SpecGain
InitGain == GainInit /\ TapIdle /\ PageIdle /\ PopIdle /\ ExtIdle
GainFirst == ~gainDone /\ InjectedSetVolume(gainIn) /\ UNCHANGED <<tapVars, pageVars, popVars, extVars>>
GainAgain ==
  /\ gainDone /\ (\E v \in PercentInputs : InjectedSetVolume(v))
  /\ UNCHANGED <<tapVars, pageVars, popVars, extVars>>
NextGain == GainFirst \/ GainAgain
SpecGain == InitGain /\ [][NextGain]_vars

\* SpecTap
InitTap == TapInit /\ GainIdle /\ PageIdle /\ PopIdle /\ ExtIdle
TapConnectAny ==
  /\ \E c \in TapCalls, f \in TapFailures : TapConnect(c[1], c[2], f)
  /\ UNCHANGED <<gainVars, pageVars, popVars, extVars>>
TapSettingsAny == (\E p \in TapPayloads : TapSettings(p)) /\ UNCHANGED <<gainVars, pageVars, popVars, extVars>>
NextTap == TapConnectAny \/ TapSettingsAny
SpecTap == InitTap /\ [][NextTap]_vars

\* SpecPage: a page of any site but open.spotify.com
\* _makeSource is called by the scan of the first start() only
Taps == IF ctl.started THEN {[e \in Els |-> "none"]} ELSE [Els -> TapOutcomes]
Times == now .. MaxNow
InitPage == PageInit /\ ~isSpotify /\ GainIdle /\ PopIdle /\ ExtIdle
PageStorageLoaded == \E taps \in Taps : StorageLoaded(taps, now)
PageStorageChanged == \E b \in BOOLEAN, taps \in Taps : StorageChanged(b, taps, now)
PageGetState == \E taps \in Taps : MsgGetState(taps, now)
PageSetVolume == \E v \in MsgVolumes, taps \in Taps : MsgSetVolume(v, taps, now)
PageToggleMute == \E taps \in Taps : MsgToggleMute(taps, now)
PageSetMuted == \E m \in BOOLEAN, taps \in Taps : MsgSetMuted(m, taps, now)
PageSetMode == \E m \in MsgModes, taps \in Taps : MsgSetMode(m, taps, now)
PageSetEqGains == \E g \in MsgGains, taps \in Taps : MsgSetEqGains(g, taps, now)
PageDomInsert == \E e \in Els, tap \in TapOutcomes : DomInsert(e, tap, now)
PageDomRemove == \E e \in Els : DomRemove(e)
PagePlay == \E e \in Els, tap \in TapOutcomes : ElPlay(e, tap, now)
PagePlaying == \E e \in Els, tap \in TapOutcomes : ElPlaying(e, tap, now)
PageLoadedMeta == \E e \in Els, tap \in TapOutcomes : ElLoadedMeta(e, tap, now)
PageTapReady == \E t \in Times : TapReady(t)
NextPage ==
  \/ PageStorageLoaded \/ PageStorageChanged \/ PageGetState \/ PageSetVolume
  \/ PageToggleMute \/ PageSetMuted \/ PageSetMode \/ PageSetEqGains
  \/ PageDomInsert \/ PageDomRemove \/ PagePlay \/ PagePlaying \/ PageLoadedMeta
  \/ PageTapReady
SpecPage == InitPage /\ [][NextPage]_vars

\* SpecSpotify: a page of open.spotify.com; start() installs no media hooks there
NoTaps == [e \in Els |-> "none"]
\* the node the player's scripts connect to the destination
SpotifyNodes == {"n1"}
\* the volumes the popup sends on open.spotify.com
SpotifyVolumes == {Num(700)}
InitSpotify == PageInit /\ isSpotify /\ hasAC /\ GainIdle /\ PopIdle /\ ExtIdle
SpotifyStorageLoaded == StorageLoaded(NoTaps, now)
SpotifyStorageChanged == \E b \in BOOLEAN : StorageChanged(b, NoTaps, now)
SpotifyGetState == MsgGetState(NoTaps, now)
SpotifySetVolume == \E v \in SpotifyVolumes : MsgSetVolume(v, NoTaps, now)
SpotifyToggleMute == MsgToggleMute(NoTaps, now)
SpotifySetMuted == \E m \in BOOLEAN : MsgSetMuted(m, NoTaps, now)
SpotifyDomInsert == \E e \in Els : DomInsert(e, "none", now)
SpotifyDomRemove == \E e \in Els : DomRemove(e)
SpotifyDrmInterval == \E t \in Times : DrmInterval(t)
SpotifyDrmTimeout == \E t \in Times : DrmTimeout(t)
SpotifySetMediaKeys == \E e \in Els : SetMediaKeys(e)
SpotifyEncrypted == \E e \in Els, t \in Times : ElEncrypted(e, t)
SpotifyConnectAny == \E n \in SpotifyNodes : SpotifyConnect(n, "none")
NextSpotify ==
  \/ SpotifyStorageLoaded \/ SpotifyStorageChanged \/ SpotifyGetState \/ SpotifySetVolume
  \/ SpotifyToggleMute \/ SpotifySetMuted
  \/ SpotifyDomInsert \/ SpotifyDomRemove \/ SpotifyDrmInterval \/ SpotifyDrmTimeout
  \/ SpotifySetMediaKeys \/ SpotifyEncrypted \/ SpotifyConnectAny
SpecSpotify == InitSpotify /\ [][NextSpotify]_vars

\* SpecEq: the equalizer vector of the 1.2 controller and of the tap it feeds,
\* on a page of either kind, with arrays of every shape as input
MaxEqLen == 11
\* entries of a gains array: in range, above, below, a numeric string, a
\* non-numeric string, null
EqItems == {Num(5), Num(30), Num(0 - 30), Str(7), Text, NullV}
EqLens == {0, 2, EqBands, MaxEqLen}
\* arrays holding x at index k and y elsewhere
EqArrays ==
  {Arr([i \in 1 .. n |-> IF i = k THEN x ELSE y]) :
     n \in EqLens, k \in {1, EqBands}, x \in EqItems, y \in {Num(5), Num(30)}}
EqInputs == {NoArray} \cup EqArrays
\* SS_SETTINGS payloads a script of the page posts to the injected tap
EqPayloads ==
  [volumePercent : {AbsentV}, volume : {AbsentV}, muted : {"absent"}, mode : {"absent"},
   eq : EqInputs]
InitEq ==
  /\ isSpotify \in BOOLEAN /\ hasAC = TRUE /\ bridgeOk = TRUE
  /\ ctl = CtlInit /\ bus = BusInit /\ hk = HookInit
  /\ el = [e \in Els |-> NewElement] /\ dom = {}
  /\ drm = [DrmInit EXCEPT !.interval = isSpotify, !.timeout = isSpotify]
  /\ web = WebTapInit /\ stap = StapInit
  /\ tapKind = (IF isSpotify THEN "spotify" ELSE "page") /\ tapState = TapStateInit
  /\ chains = [c \in TapCtxs |-> NoChain] /\ tapLinks = {} /\ tapReport = 0 - 1
  /\ ui = UiInit /\ posted = NoPost
  /\ saved = [SavedInit EXCEPT !.spotifyExperimental = isSpotify]
  /\ loaded = FALSE /\ now = 0
  /\ GainIdle /\ PopIdle /\ ExtIdle
EqStorageLoaded == StorageLoaded(NoTaps, now)
EqSetEqGains == \E g \in EqInputs : MsgSetEqGains(g, NoTaps, now)
EqTapReady == TapReady(now)
EqSpotifyConnect == SpotifyConnect("n1", "none")
EqPageConnect ==
  /\ ~isSpotify /\ TapConnect("n1", "destination", "none")
  /\ UNCHANGED <<gainVars, pageVars, popVars, extVars>>
EqTapSettings ==
  /\ ~isSpotify /\ (\E p \in EqPayloads : TapSettings(p))
  /\ UNCHANGED <<gainVars, pageVars, popVars, extVars>>
NextEq ==
  \/ EqStorageLoaded \/ EqSetEqGains \/ EqTapReady \/ EqSpotifyConnect
  \/ EqPageConnect \/ EqTapSettings
SpecEq == InitEq /\ [][NextEq]_vars

\* SpecGuard: a page of either kind whose elements may play encrypted media
GuardVolumes == {Num(700)}
InitGuard == PageInit /\ hasAC /\ GainIdle /\ PopIdle /\ ExtIdle
GuardStorageLoaded == \E taps \in Taps : StorageLoaded(taps, now)
GuardGetState == \E taps \in Taps : MsgGetState(taps, now)
GuardSetVolume == \E v \in GuardVolumes, taps \in Taps : MsgSetVolume(v, taps, now)
GuardDomInsert == \E e \in Els, tap \in TapOutcomes : DomInsert(e, tap, now)
GuardDomRemove == \E e \in Els : DomRemove(e)
GuardInterval == \E t \in Times : DrmInterval(t)
GuardTimeout == \E t \in Times : DrmTimeout(t)
GuardSetMediaKeys == \E e \in Els : SetMediaKeys(e)
GuardEncrypted == \E e \in Els, t \in Times : ElEncrypted(e, t)
NextGuard ==
  \/ GuardStorageLoaded \/ GuardGetState \/ GuardSetVolume \/ GuardDomInsert
  \/ GuardDomRemove \/ GuardInterval \/ GuardTimeout \/ GuardSetMediaKeys
  \/ GuardEncrypted
SpecGuard == InitGuard /\ [][NextGuard]_vars

\* SpecBind: three media elements bound by one build's routine
InitBind == CliIdle /\ BindInit /\ GainIdle /\ TapIdle /\ PageIdle /\ PopIdle /\ TabsIdle /\ EngIdle
BindAny == \E e \in BindEls, d \in BOOLEAN, c \in BOOLEAN, m \in BOOLEAN : BindElement(e, d, c, m)
BindEndedAny == \E e \in BindEls, ev \in {"ended", "emptied"} : BindEnded(e, ev)
NextBind == BindAny \/ BindEndedAny
SpecBind == InitBind /\ [][NextBind]_vars

\* SpecTabs: two tabs, one store
InitTabs == CliIdle /\ TabsInit /\ GainIdle /\ TapIdle /\ PageIdle /\ PopIdle /\ BindIdle /\ EngIdle
TabsContentLoaded == \E t \in TabIds : TabContentLoaded(t)
TabsSetVolume == \E t \in TabIds, v \in TabVolumes : TabSetVolume(t, v)
TabsSliderChange == \E t \in TabIds, v \in TabVolumes : TabSliderChange(t, v)
TabsNavigate == \E t \in TabIds : TabNavigate(t)
NextTabs == TabsContentLoaded \/ TabsSetVolume \/ TabsSliderChange \/ TabsNavigate
SpecTabs == InitTabs /\ [][NextTabs]_vars

\* SpecEngine: the engine page receiving the popup's messages
InitEngine ==
  CliIdle /\ EngInit /\ GainIdle /\ TapIdle /\ PageIdle /\ PopIdle /\ BindIdle /\ TabsIdle
EngineSetGain == \E t \in EngTabs, v \in EngVolumes : EngSetGain(t, v)
EngineStreamId == \E n \in EngOps, ok \in BOOLEAN : EngStreamId(n, ok)
EngineUserMedia == \E n \in EngOps, ok \in BOOLEAN : EngUserMedia(n, ok)
EngineSetEq == \E g \in EngEqInputs : EngSetEq(g)
EngineSetMode == \E m \in EngModes : EngSetMode(m)
NextEngine ==
  \/ EngineSetGain \/ EngineStreamId \/ EngineUserMedia \/ EngineSetEq
  \/ EngineSetMode \/ EngDisposeMsg
SpecEngine == InitEngine /\ [][NextEngine]_vars

\* SpecClient: one popup whose controls call sendToEngine
InitClient ==
  /\ CliInit /\ GainIdle /\ TapIdle /\ PageIdle /\ PopIdle
  /\ BindIdle /\ TabsIdle /\ EngIdle
ClientSend == \E c \in Callers : CliSend(c)
ClientQueried == \E k \in Attempts, found \in BOOLEAN : CliQueried(k, found)
ClientCreated == \E k \in Attempts, ok \in BOOLEAN : CliCreated(k, ok)
ClientAnswered == \E c \in Callers : CliAnswered(c)
NextClient == ClientSend \/ ClientQueried \/ ClientCreated \/ ClientAnswered
SpecClient == InitClient /\ [][NextClient]_vars

\* SpecPopup: one popup of any of the three builds
InitPopup == PopInit /\ GainIdle /\ TapIdle /\ PageIdle /\ ExtIdle
PopupPrefsLoaded == \E od \in BOOLEAN : PopPrefsLoaded(od)
PopupTabsLoaded == \E b \in BOOLEAN : PopTabsLoaded(b)
PopupStateReply == \E st \in PopReplies, v \in PopVolumes : PopStateReply(st, v)
PopupStoredVolume == \E v \in PopVolumes : PopStoredVolume(v)
PopupSliderInput == \E v \in PopVolumes : PopSliderInput(v)
PopupSaveClick == \E od \in BOOLEAN : PopSaveClick(od)
PopupTabClick == \E v \in PopVolumes : PopTabClick(v)
NextPopup ==
  \/ PopupPrefsLoaded \/ PopupTabsLoaded \/ PopupStateReply \/ PopupStoredVolume
  \/ PopupSliderInput \/ PopMuteClick \/ PopResetClick \/ PopupSaveClick \/ PopSaveDone
  \/ PopupTabClick
SpecPopup == InitPopup /\ [][NextPopup]_vars

-----------------------------------------------------------------------------
(* Claims about the WebAudio tap, checked under SpecTap                      *)

\* C6: for each AudioContext, however many nodes call connect(destination),
\* one chain is built for the context, the step connecting the chain's output
\* to the destination is taken exactly once, and every node whose call was
\* rerouted feeds the input of that one chain of its own context.
OneChainPerContext(ch) ==
  \A c \in TapCtxs :
    /\ ch[c].builds <= 1
    /\ ch[c].built => ch[c].outCalls = 1 /\ ch[c].connected
    /\ ~ch[c].built => ch[c].outCalls = 0 /\ ch[c].inputs = {}
    /\ \A n \in ch[c].inputs : CtxOf(n) = c
C6_Step ==
  /\ OneChainPerContext(chains')
  /\ \A n \in TapNodes, f \in {"none", "output"} :
       TapConnect(n, "destination", f) =>
         /\ n \in chains'[CtxOf(n)].inputs
         /\ chains[CtxOf(n)].inputs \subseteq chains'[CtxOf(n)].inputs
         /\ tapLinks' = tapLinks
C6_SingleOutput == [][C6_Step]_vars
C6_Witness ==
  /\ chains["c1"].inputs = {"n1", "n2"} /\ chains["c1"].outCalls = 1
  /\ chains["c2"].inputs = {"n3"} /\ chains["c2"].outCalls = 1

\* C31: in the patched connect the chain's output -> destination connect is
\* made before the first source is wired into the chain's input, and it is
\* attempted at most once per context.
C31_OutputBeforeInput ==
  \A c \in TapCtxs :
    /\ chains[c].order \in {<<>>, <<"output">>, <<"output", "input">>}
    /\ chains[c].outCalls <= 1
    /\ (chains[c].inputs # {} => chains[c].connected /\ chains[c].outCalls = 1)
\* a context with two sources wired after the one output connect, and a
\* context whose first input connect threw after the output connect
C31_Witness ==
  /\ chains["c1"].order = <<"output", "input">> /\ chains["c1"].inputs = {"n1", "n2"}
  /\ chains["c2"].order = <<"output">> /\ chains["c2"].inputs = {}

\* node n has an audio path to its context's destination
HasPath(n, ch, links) ==
  \/ n \in ch[CtxOf(n)].inputs /\ ch[CtxOf(n)].outWired
  \/ <<n, "destination">> \in links

\* C32: a node on which the patched connect is called with the destination
\* as target ends up with an audio path to the destination, through the
\* chain or through the direct connection, even if an internal connect throws.
C32_Step ==
  \A n \in TapNodes :
    ~HasPath(n, chains', tapLinks') =>
      \A f \in TapFailures : ~TapConnect(n, "destination", f)
C32_AlwaysAudible == [][C32_Step]_vars

\* C33: after any sequence of mode changes on a wired chain, the gain node
\* feeds exactly one mode segment (the current one) and exactly one mode
\* segment feeds eq[0]: no node of an earlier segment remains in the path.
OneSegment(r) == r.gainTo = 1 /\ r.eqFrom = 1
C33_OneModeSegment ==
  /\ \A c \in TapCtxs : chains[c].built => OneSegment(chains[c])
  /\ bus.wired => OneSegment(bus)
C33_Witness ==
  /\ tapKind = "page"
  /\ chains["c1"].built /\ chains["c1"].inputs # {} /\ chains["c1"].outWired
  /\ chains["c1"].mode = "bass" /\ chains["c1"].log = <<"gain", "eq", "mode">>
  /\ OneSegment(chains["c1"])

-----------------------------------------------------------------------------
(* Claims about the 1.2 content script on a page of any site but            *)
(* open.spotify.com, checked under SpecPage                                  *)

\* a step of one of the controller's setters, called from a message handler
SetterStep ==
  PageSetVolume \/ PageToggleMute \/ PageSetMuted \/ PageSetMode \/ PageSetEqGains
MuteStep == PageToggleMute \/ PageSetMuted
\* muted ? 0 : clampNumber(volumePercent, 0, 800) / 100, in hundredths
EffectiveGain(c) == IF c.muted THEN 0 ELSE clampNumber(Num(c.volumePercent), 0, 800)

\* C1: with at least one source bound to the AudioBus, a setter step that
\* ends with muted = true leaves the bus gain at 0 whatever volumePercent is
\* stored (setMuted(true) itself, and every setVolumePercent / setMode /
\* setEqDb while muted), and a setMuted step that ends with muted = false
\* leaves the bus gain at the stored volumePercent / 100, the stored
\* volumePercent being the one from before the step.  Written in the
\* contrapositive: a step that ends otherwise is no setter step.
C1_Step ==
  hk'.hookedCount > 0 =>
    /\ (ctl'.muted /\ bus'.gain # 0 => ~SetterStep)
    /\ (~ctl'.muted /\ ~(ctl'.volumePercent = ctl.volumePercent /\ bus'.gain = ctl.volumePercent)
          => ~MuteStep)
C1_MuteWins == [][C1_Step]_vars
C1_Witness ==
  /\ hk.hookedCount > 0 /\ ctl.muted /\ ctl.volumePercent = 700
  /\ bus.gain = 0 /\ bus.mode = "bass"

\* C2: every step that binds a media element to the AudioBus (hookedCount
\* grows) ends with the bus gain, mode segment and EQ gains equal to the
\* controller's current volumePercent / muted, mode and eqDb.
C2_Step ==
  hk'.hookedCount > hk.hookedCount =>
    /\ bus'.gain = EffectiveGain(ctl')
    /\ bus'.mode = ctl'.mode
    /\ bus'.eq = ctl'.eqDb
C2_BoundWithSettings == [][C2_Step]_vars

\* C3: however often an element is presented to MediaHook.hook (scan of
\* start(), MutationObserver, 'play', retries), at most one source node is
\* created for it and connected to the bus input at most once, hookedCount
\* is the number of bound elements, and no step changes any of this for an
\* element that is bound already.
C3_Step ==
  /\ hk'.hookedCount = Cardinality(hk'.sources)
  /\ \A e \in Els :
       /\ el'[e].srcNodes <= 1 /\ el'[e].busConns <= 1
       /\ (e \in hk'.sources <=> el'[e].srcNodes = 1 /\ el'[e].busConns = 1)
       /\ (e \in hk.sources =>
             /\ e \in hk'.sources /\ hk'.hookedCount = hk.hookedCount
             /\ el'[e].srcNodes = el[e].srcNodes /\ el'[e].busConns = el[e].busConns)
-----------------------------------------------------------------------------
(* Claims about the 1.2 content script on open.spotify.com, checked under    *)
(* SpecSpotify                                                               *)

\* C4: once DRM_GUARD.state.inUse is true, every later step leaves it true,
\* and getState() then reports blockedEffects = true and canBoost = false.
C4_Step ==
  drm.inUse =>
    /\ drm'.inUse
    /\ getState(PageState').blockedEffects
    /\ ~getState(PageState').canBoost
C4_Sticky == [][C4_Step]_vars
\* both signals seen: mark() has run again after inUse was set, with a
\* rerouted context and a changed volume
C4_Witness ==
  /\ drm.inUse /\ drm.encryptedEvent /\ drm.mediaKeys
  /\ stapEngaged(PageState) /\ ctl.volumePercent = 700

\* the gains written to chains, to the bus, to media elements and to the
\* player's volume control, in hundredths
AppliedGains(s) ==
  {s.chains[c].gain : c \in {x \in TapCtxs : s.chains[x].built}}
    \cup {s.el[e].volume : e \in Els} \cup {s.ui.volume}
    \cup (IF s.bus.wired THEN {s.bus.gain} ELSE {})

\* C5: when protected playback has been detected (DRM_GUARD.state.inUse), a
\* setVolume message above 100 is stored (getState().volume reports it) and
\* no gain applied to a chain or a media element exceeds 1.0.
C5_Step ==
  drm.inUse /\ SpotifySetVolume =>
    /\ getState(PageState').volume \in {clampNumber(v, 0, 800) : v \in SpotifyVolumes}
    /\ \A g \in AppliedGains(PageState') : g <= 100
C5_BoundedWhenRestricted == [][C5_Step]_vars

-----------------------------------------------------------------------------
(* Claims about the equalizer vector, checked under SpecEq                   *)

\* a stored EQ vector: ten entries, each within [-24, 24]
EqVectorOk(v) == DOMAIN v = 1 .. 10 /\ \A i \in DOMAIN v : v[i] >= 0 - 24 /\ v[i] <= 24

\* C11: in every reachable state the EQ vector the controller stores and the
\* EQ vector the tap stores have exactly 10 entries, each within [-24, 24],
\* whatever arrays (too short, too long, out-of-range entries) or non-arrays
\* were passed to setEqDb or sent in a settings payload.
C11_EqShape == EqVectorOk(ctl.eqDb) /\ EqVectorOk(tapState.eq)
\* the controller has stored a vector clamped at both ends and the tap one
\* padded from a two-entry array with an entry above the range
C11_Witness ==
  /\ ctl.eqDb = [i \in 1 .. 10 |-> IF i = 10 THEN 0 - 24 ELSE 24]
  /\ tapState.eq = [i \in 1 .. 10 |-> IF i = 1 THEN 24 ELSE IF i = 2 THEN 5 ELSE 0]

\* the index of the one entry of a gains array that is not numeric, 0 if
\* there is none or more than one
OddBand(g) ==
  LET odd == {i \in 1 .. Len(g.items) : g.items[i].k \in {"text", "nan", "absent"}}
  IN  IF g.isArray /\ Cardinality(odd) = 1 /\ odd \subseteq 1 .. 10
      THEN CHOOSE i \in odd : TRUE ELSE 0

\* C12: when setEqDb receives a non-numeric entry for one band, that band is
\* set to 0 dB and the other bands take their clamped supplied values.
C12_Step ==
  \A g \in EqArrays :
    OddBand(g) # 0 /\ MsgSetEqGains(g, NoTaps, now) =>
      /\ ctl'.eqDb[OddBand(g)] = 0
      /\ \A i \in 1 .. 10 : i # OddBand(g) => ctl'.eqDb[i] = NormEq(g.items)[i]
C12_NonNumericIsZero == [][C12_Step]_vars

-----------------------------------------------------------------------------
(* Claims about the tap's settings message, checked under SpecTap            *)

\* C13: a settings message to the tap that omits a field leaves the stored
\* value of that field unchanged: muted, mode, volume and eq each keep their
\* previous value when the payload does not carry them.
C13_Step ==
  \A p \in TapPayloads :
    TapSettings(p) =>
      /\ (p.muted = "absent" => tapState'.muted = tapState.muted)
      /\ (p.mode = "absent" => tapState'.mode = tapState.mode)
      /\ (p.volumePercent = AbsentV /\ p.volume = AbsentV
            => tapState'.volumePercent = tapState.volumePercent)
      /\ (~p.eq.isArray => tapState'.eq = tapState.eq)
C13_OmittedFieldKept == [][C13_Step]_vars

-----------------------------------------------------------------------------
(* Claims about unbound elements and the capability report, checked under    *)
(* SpecPage                                                                  *)

\* element e of the document is not bound and does not carry the basic
\* controls: volume min(volumePercent, 100) / 100 and the muted setting
Uncontrolled(e, c, els, sources) ==
  /\ e \notin sources
  /\ ~(els[e].volume = Min2(c.volumePercent, 100) /\ els[e].muted = c.muted)

\* C14: after every settings change of the controller, each media element
\* of the document that is not bound to a processing chain has its native
\* volume at min(volumePercent, 100) / 100 and its native muted flag at the
\* muted setting, whether or not the tap is ready.  Written in the
\* contrapositive: a step that leaves an unbound element otherwise is no
\* setter step.
C14_Step ==
  (\E e \in dom' : Uncontrolled(e, ctl', el', hk'.sources)) => ~SetterStep
C14_UnboundControlled == [][C14_Step]_vars

\* C15: getState().canBoost is true only if audio is being processed through
\* WebAudio: a media element is bound to the AudioBus, or an AudioContext has
\* been rerouted through a tap chain.
C15_CanBoostOnlyProcessing ==
  getState(PageState).canBoost =>
    hk.hookedCount > 0 \/ (\E c \in TapCtxs : chains[c].built)

\* the site notice of a Firefox 1.2 popup that has received reply st
NoticeFor(st) == onState(PopNew("firefox12", isSpotify), Reply(st), 100).notice

\* C16: whenever getState() reports canBoost = false it also carries a
\* non-null blockReason, and the popup that receives the reply shows a
\* non-empty site notice.  Written in the contrapositive: a step after which
\* getState() would report otherwise is no getState step.
C16_Step ==
  LET st == getState(PageState')
  IN  ~st.canBoost /\ (st.blockReason = "null" \/ NoticeFor(st) = "") => ~PageGetState
C16_ReasonWhenBasic == [][C16_Step]_vars

\* what a getState request must leave alone: the controller's fields, the
\* audio graph, the hook's bookkeeping, the elements, the store, and no
\* message posted to the page
PageUntouched ==
  /\ ctl' = ctl /\ bus' = bus /\ hk' = hk /\ el' = el /\ web' = web
  /\ stap' = stap /\ drm' = drm /\ saved' = saved /\ posted' = NoPost

\* C21 as stated: handling a getState request changes nothing.
C21_Step == ~PageUntouched => ~PageGetState
C21_GetStatePure == [][C21_Step]_vars

\* C21, amended: handling a getState request changes nothing once the
\* controller has started; the first request for a controller that has not
\* started runs start().
C21_AmendedStep == ctl.started /\ ~PageUntouched => ~PageGetState
C21_GetStatePureOnceStarted == [][C21_AmendedStep]_vars
\* a started controller with an unbound element of the document whose native
\* volume differs from the stored setting: the state a second start() would
\* change
C21_Witness ==
  /\ ctl.started /\ ctl.volumePercent = 40 /\ hk.hookedCount = 0 /\ ~web.ready
  /\ \E e \in dom : el[e].volume = 100

\* every write of a in the log comes before every write of b
Before(log, a, b) ==
  \A i, j \in DOMAIN log : log[i] = a /\ log[j] = b => i < j
PushLogs == {bus.log} \cup {chains[c].log : c \in TapCtxs}

\* C22 as stated: one push of the settings writes a chain's parameters in
\* the order gain, then mode, then EQ.
C22_GainModeEq ==
  \A log \in PushLogs : Before(log, "gain", "mode") /\ Before(log, "mode", "eq")

\* C22, amended: one push of the settings writes a chain's parameters in the
\* order gain, then EQ, then mode, each at most once (the Spotify tap leaves
\* the mode segment alone when the mode did not change).
C22_GainEqMode ==
  \A log \in PushLogs :
    log \in {<<>>, <<"gain", "eq">>, <<"gain", "eq", "mode">>}
\* the bus after a push of a non-default mode and a non-flat EQ
C22_Witness ==
  /\ bus.log = <<"gain", "eq", "mode">> /\ bus.mode = "bass" /\ bus.gain = 40

\* C24: an element whose tap failed has at most one retry listener per
\* lifecycle event ('playing', 'loadedmetadata'), however often the retry
\* fails again.
C24_OneRetryPending ==
  \A e \in Els : el[e].lPlaying <= 1 /\ el[e].lMeta <= 1

\* C34: a settings change that does not change the mode (a volume or mute
\* change) leaves the tone segment untouched: the push that follows it on a
\* wired bus does not rebuild the mode segment.
Rebuilt(r) == \E i \in 1 .. Len(r.log) : r.log[i] = "mode"
C34_Step ==
  bus.wired =>
    /\ \A v \in MsgVolumes, taps \in Taps :
         MsgSetVolume(v, taps, now) => ~Rebuilt(bus')
    /\ \A m \in BOOLEAN, taps \in Taps :
         MsgSetMuted(m, taps, now) => ~Rebuilt(bus')
C34_SegmentUntouched == [][C34_Step]_vars

\* C35: when an element whose tap failed is removed from the page before its
\* retry fires, the pending retry is cancelled: no retry handler runs for
\* the element afterwards.
C35_Step ==
  \A e \in Els :
    e \notin dom =>
      \A tap \in TapOutcomes :
        ~ElPlaying(e, tap, now) /\ ~ElLoadedMeta(e, tap, now)
C35_RetryCancelled == [][C35_Step]_vars

-----------------------------------------------------------------------------
(* Claims about protected playback, checked under SpecGuard                  *)

\* element e is tracked: bound by the MediaHook or watched by DRM_GUARD
Tracked(e) == e \in hk.sources \/ e \in drm.watched

\* C17: in any page context, when a tracked media element emits 'encrypted'
\* the context becomes Restricted: getState() reports blockedEffects = true
\* and canBoost = false from then on.
C17_Step ==
  (\E e \in Els : Tracked(e) /\ ~el[e].enc /\ el'[e].enc) =>
    getState(PageState').blockedEffects /\ ~getState(PageState').canBoost
C17_EncryptedRestricts == [][C17_Step]_vars

\* C18: after the first protected-content signal, further signals leave
\* DRM_GUARD's change marker lastChangedAt as it is: the change to Restricted
\* is recorded once.
C18_Step == drm.inUse => drm'.lastChangedAt = drm.lastChangedAt
C18_MarkedOnce == [][C18_Step]_vars

\* C38: on open.spotify.com, a tracked media element with a mediaKeys
\* association makes the context Restricted, whether the association was
\* there when the element was first tracked or was attached afterwards: after
\* a scan of the guard every watched element of the document that has
\* mediaKeys has been noticed.
C38_Step ==
  isSpotify =>
    \A t \in Times :
      DrmInterval(t) =>
        \A e \in dom : (e \in drm'.watched /\ el'[e].keys) => drm'.inUse
C38_MediaKeysRestrict == [][C38_Step]_vars

-----------------------------------------------------------------------------
(* Claims about the popup, checked under SpecPopup                           *)

\* a setVolume message is sent in this step
SendStep == pop'.msg.flip # pop.msg.flip

\* C19: every setVolume message the popup sends carries a value in [0, 600]
\* while the overdrive preference is off and in [0, 800] while it is on,
\* whatever the slider, mute, reset or stored volume gave.
C19_Step ==
  SendStep =>
    /\ pop'.overdrive = pop.overdrive
    /\ pop'.msg.value >= 0
    /\ pop'.msg.value <= (IF pop.overdrive THEN 800 ELSE 600)
C19_SentWithinLimit == [][C19_Step]_vars
\* with overdrive off, a message of exactly 600 has been sent for an input
\* above it
C19_Witness ==
  /\ pop.build # "firefox12" /\ pop.msg.any /\ ~pop.msg.overdrive /\ ~pop.overdrive
  /\ pop.msg.value = 600

\* C20 as stated: two consecutive setVolume messages from one popup never
\* carry the same value.
C20_Step == pop.build # "chrome10" /\ pop.msg.any /\ SendStep => pop'.msg.value # pop.msg.value
C20_NeverSameTwice == [][C20_Step]_vars

\* C20, amended: the popup of the 1.1 and 1.2 builds sends no setVolume
\* message whose value equals lastSentVolume, and two consecutive messages
\* carry the same value only if the second is sent by loadPrefsAndTab's
\* fallback for a missing getState reply, which resets lastSentVolume first.
FallbackStep == \E v \in PopVolumes : PopStateReply(NoReply, v)
C20_AmendedStep ==
  pop.build # "chrome10" /\ SendStep =>
    /\ pop'.lastSentVolume = Num(pop'.msg.value)
    /\ (pop.lastSentVolume = Num(pop'.msg.value) => FallbackStep)
    /\ (pop.msg.any /\ pop'.msg.value = pop.msg.value => FallbackStep)
C20_SkipUnlessReset == [][C20_AmendedStep]_vars
\* a message was sent, and the input was then given again without a send:
\* lastSentVolume holds the value of the last message
C20_Witness ==
  /\ pop.build # "chrome10" /\ pop.pc = "done" /\ pop.msg.any
  /\ pop.lastSentVolume = Num(pop.msg.value) /\ pop.slider = pop.msg.value
  /\ pop.msg.value = 650

\* C39: after the 1.1 popup retargets to another tab (a click on a tab row),
\* that tab receives a setVolume message with the volume the slider shows,
\* whatever was last sent to the previous tab.
C39_Step ==
  pop.build = "chrome11" =>
    \A v \in PopVolumes :
      PopTabClick(v) => SendStep /\ pop'.msg.value = pop'.slider
C39_NewTabGetsVolume == [][C39_Step]_vars

-----------------------------------------------------------------------------
(* Claims about the source-binding routines, checked under SpecBind          *)
(*****************************************************************************)

\* C23: every build's routine tries the direct element tap first and the
\* capture-based tap only after the direct tap failed; the first success is
\* the source that is used.
C23_DirectFirst ==
  \A e \in BindEls :
    LET b == bind.of[e]
    IN  b.tries # <<>> =>
          /\ b.tries[1] = "direct"
          /\ (b.used = "direct" => b.tries = <<"direct">>)
          /\ (b.used = "capture" => b.tries = <<"direct", "capture">>)

\* C36: when a bound element signals 'ended' or 'emptied' its chain is
\* disconnected and released, so after any sequence of hook, ended/emptied
\* and rescan events at most one chain fed by the element is connected to
\* the destination.
C36_OneChainPerElement ==
  \A e \in BindEls : bind.of[e].live <= 1

\* C37: a binding attempt that fails leaves no side effect: no AudioContext
\* or node stays allocated and no property of the element is changed.
C37_Step ==
  \A e \in BindEls, d \in BOOLEAN, c \in BOOLEAN, m \in BOOLEAN :
    (BindElement(e, d, c, m) /\ bind'.of[e].used = "none") =>
      /\ bind'.of[e].ctxs = bind.of[e].ctxs
      /\ bind'.of[e].cross = bind.of[e].cross
      /\ bind'.of[e].live = bind.of[e].live
C37_FailureLeavesNothing == [][C37_Step]_vars
-----------------------------------------------------------------------------
(* Claims about tabs sharing the store, checked under SpecTabs               *)
(*****************************************************************************)

\* C25: with 'remember volume per tab' enabled, the volume the content
\* script of a tab applies is the default or a volume requested for that
\* tab, never one requested for another tab.
C25_TabVolumeIsOwn ==
  tabs.remember =>
    \A t \in TabIds :
      tabs.of[t].volumePercent = 100 \/ tabs.of[t].volumePercent \in tabs.of[t].own

\* C40: the volume the content script stores on a setVolume message is the
\* volume it applies when it next loads: for every stored value in [0, 800],
\* 0 included, volumePercent after the load equals the stored value.
C40_Step ==
  \A t \in TabIds :
    (TabContentLoaded(t) /\ tabs.vol_global.k = "num"
       /\ tabs.vol_global.v >= 0 /\ tabs.vol_global.v <= 800) =>
      tabs'.of[t].volumePercent = tabs.vol_global.v
C40_StoredIsLoaded == [][C40_Step]_vars
-----------------------------------------------------------------------------
(* Claims about the engine page, checked under SpecEngine                    *)
(*****************************************************************************)

\* C26: the engine has at most one live capture graph: every graph it made,
\* other than the one its fields hold, has been stopped and closed.
C26_OneLiveGraph ==
  \A n \in EngOps :
    eng.graphs[n].made /\ n # eng.cur => eng.graphs[n].stopped

\* C27: whenever the engine holds a live graph, the captured stream belongs
\* to the tab recorded in tabId.
C27_StreamOfTabId ==
  eng.cur # 0 => eng.graphs[eng.cur].tab = eng.tabId

EngQuiet == \A n \in EngOps : eng.ops[n].pos \in {"free", "done"}

\* C28: once all pending operations have completed, the live gain node's
\* value is that of the most recently received SET_GAIN, and is currentGain.
C28_LastGainWins ==
  EngQuiet /\ eng.cur # 0 =>
    /\ eng.graphs[eng.cur].gain = eng.lastGain
    /\ eng.graphs[eng.cur].gain = eng.currentGain

\* C29: every value written to an audio node lies in the settings' domain:
\* gain within [0, 8], each EQ band gain within [-24, 24].
C29_WrittenInDomain ==
  \A n \in EngOps :
    eng.graphs[n].made =>
      /\ eng.graphs[n].gain >= 0 /\ eng.graphs[n].gain <= MaxPercent
      /\ \A i \in 1 .. EqBands :
            eng.graphs[n].eq[i] >= EqMinDb /\ eng.graphs[n].eq[i] <= EqMaxDb
-----------------------------------------------------------------------------
(* Claims about the popup's engine client, checked under SpecClient          *)
(*****************************************************************************)

InFlight == {k \in Attempts : cli.at[k] \in {"query", "create"}}

\* C30: overlapping ensureEngineTab calls share one attempt: at most one
\* attempt is in flight, so at most one tabs.create is outstanding, and every
\* caller inside ensureEngineTab waits for that attempt.
C30_OneAttemptInFlight ==
  /\ Cardinality(InFlight) <= 1
  /\ Cardinality({k \in Attempts : cli.at[k] = "create"}) <= 1
  /\ \A c \in Callers : cli.waits[c] # 0 => cli.waits[c] \in InFlight
  /\ \A c \in Callers : cli.waits[c] # 0 => cli.waits[c] = cli.ensurePromise
\* both callers wait while the one attempt has issued tabs.create
C30_Witness ==
  /\ \A c \in Callers : cli.waits[c] = 1 /\ ~cli.sent[c]
  /\ cli.at[1] = "create" /\ cli.creates = 1

====
